---------------------------- MODULE Spec2Model ----------------------------
(***************************************************************************)
(* RxPython observers (src/rx/observer.py, with the earlier revision       *)
(* src/observer.py): the grammar-enforcing ObserverBase and the scheduled  *)
(* dispatcher ScheduledObserver / ObserveOnObserver in its two strategies  *)
(* (dedicated dispatcher thread, trampoline).                              *)
(*                                                                         *)
(* Threads are modelled by a program counter each; one action is one       *)
(* shared-memory step of the Python code (a lock operation, an Atomic      *)
(* operation, a queue operation, a flag read or write, the start or the    *)
(* end of a call into the inner observer).                                 *)
(***************************************************************************)
EXTENDS Integers, Sequences, FiniteSets, TLC

\* ---------------------------------------------------------------- bounds
\* calls issued on the ObserverBase instance of SpecBase
MaxBaseCalls == 3
\* producer calls issued on the ObserveOnObserver of SpecObserveOn
MaxCalls == 3

\* threads calling the observer
Threads == {"t1", "t2", "t3"}
\* the producer threads of the ObserveOnObserver
Producers == {"t1", "t2"}
\* no thread holds the lock
Free == "free"

\* Python's None, as an onNext argument and as "no item"
None == 0
\* the values passed to onNext: None, or a number that tells the calls apart
Values == {None} \cup (1..MaxCalls)

VARIABLES
    \* ObserverBase
    ver,          \* "rx" (src/rx/observer.py) or "legacy" (src/observer.py)
    isStopped,    \* ObserverBase.isStopped
    lock,         \* owner of self.lock (an RLock), or Free
    pc,           \* per thread: where it is in its current call
    op,           \* per thread: the method it is calling
    arg,          \* per thread: the value passed to onNext
    cid,          \* per thread: number of its current call
    ncalls,       \* calls issued so far
    \* history of the ObserverBase calls
    coreLog,      \* core handler invocations, in order: [kind, thread, id, at],
                  \* at: the number of calls issued when it was invoked
    flips,        \* calls that changed isStopped from false to true: [id, op]
    failRet,      \* returned fail calls: <<id, result>>
    issued,       \* calls issued on the ObserverBase of SpecBase: [id, op]
    \* ScheduledObserver / ObserveOnObserver
    isLongRunning,  \* scheduler.isLongRunning
    state,          \* ScheduledObserver.state
    queue,          \* ScheduledObserver.queue
    failed, exception, completed,
    nHandles,       \* handles returned by scheduleRecursiveWithState so far
    runPc,          \* per handle: where its run step is
    runNext,        \* per handle: run's local `next`
    runTerm,        \* per handle: the terminal branch run is in
    cancelled,      \* per handle: the handle has been disposed
    disposable,     \* self.disposable: 0 the SerialDisposable, h a handle
    serialDisposed, \* the SerialDisposable has been disposed
    dispatcherJob,  \* self.dispatcherJob != None
    sem,            \* dispatcherEvent (a counting semaphore)
    dpc,            \* where the dispatch routine is
    dnext,          \* dispatch's local `next`
    jobCancelled,   \* cancel.isDisposed of the long-running job
    cancel,         \* ObserveOnObserver.cancel holds the upstream handle
    upstreamDisposed, \* number of dispose calls on the upstream handle
    nJobs,          \* number of scheduler.scheduleLongRunning calls
    \* history of the dispatcher
    trace,          \* calls received by the inner observer, in order
    inflight,       \* calls into the inner observer now executing
    enqueued,       \* values put on the queue, in order
    raised,         \* number of inner onNext calls that raised
    extDisposed,    \* dispose() has been called from outside
    disposeReturned, \* number of dispose() calls on the dispatcher that returned
    \* CheckedObserver
    ckState,      \* CheckedObserver.state
    ckLock,       \* owner of the earlier revision's self.lock, or Free
    ckPc,         \* per thread: where it is in its call
    ckOp,         \* per thread: the method it is calling
    ckNested,     \* per thread: how the latest call made by the inner observer
                  \* from within this thread's forwarded call ended
    ckCalls,      \* calls made so far
    ckTrace,      \* calls forwarded to the inner observer, in order
    ckFinished,   \* forwarded calls that finished: <<method, "ok" or "exc">>
    \* AutoDetachObserver (on the ObserverBase variables)
    adAssigned,     \* the slot self.m holds the subscription
    adSlotDisposed, \* self.m has been disposed
    adSubDisposed,  \* number of dispose calls the subscription received
    adTrace,        \* calls forwarded to the inner observer, in order
    adEnded,        \* the ways termination has happened so far
    \* SynchronizedObserver instances sharing the caller's lock
    syStopped,    \* per instance: ObserverBase.isStopped
    syLock,       \* per instance: owner of its own self.lock, or Free
    outerLock,    \* owner of the caller-supplied lock, or Free
    outerDepth,   \* how many times its owner has acquired it
    syPc,         \* per thread: where it is in its call
    syInst,       \* per thread: the instance it is calling
    syOp,         \* per thread: the method it is calling
    syCalls,      \* calls made so far
    \* ListObserver instances
    loHeap,       \* per instance, in order of construction: self.observers
    loMade,       \* per instance: the members it was constructed with
    loBInst,      \* the instance a notification is being broadcast through
    loBIdx,       \* members that broadcast has already called
    loTrace,      \* members called by the current or latest broadcast
    loBOp,        \* the notification being broadcast
    loBEnd,       \* "none", "running", "returned" or "raised"
    loCalls,      \* notifications broadcast so far
    loLast,       \* the latest add / remove: [op, inst, obs, ret, mid]
    \* AsyncLockObserver (on the ObserverBase variables) and its gate
    alQueue,      \* the actions the gate holds, in order
    alOwner,      \* who is running the gate's actions, or Free
    alTrace       \* calls received by the inner observer, in order

baseVars == <<ver, isStopped, lock, pc, op, arg, cid, ncalls>>
baseHist == <<coreLog, flips, failRet>>
schedVars == <<isLongRunning, state, queue, failed, exception, completed,
               nHandles, runPc, runNext, runTerm, cancelled, disposable,
               serialDisposed, dispatcherJob, sem, dpc, dnext, jobCancelled,
               cancel, upstreamDisposed, nJobs>>
schedHist == <<trace, inflight, enqueued, raised, extDisposed, disposeReturned>>
ckVars == <<ckState, ckLock, ckPc, ckOp, ckNested, ckCalls, ckTrace, ckFinished>>
adVars == <<adAssigned, adSlotDisposed, adSubDisposed, adTrace, adEnded>>
syVars == <<syStopped, syLock, outerLock, outerDepth, syPc, syInst, syOp, syCalls>>
loVars == <<loHeap, loMade, loBInst, loBIdx, loTrace, loBOp, loBEnd, loCalls, loLast>>
\* the variables of the wrappers that are not dispatchers
alVars == <<alQueue, alOwner, alTrace>>
wrapVars == <<ckVars, adVars, syVars, loVars, alVars>>
vars == <<baseVars, baseHist, issued, schedVars, schedHist, wrapVars>>

\* ------------------------------------------------- ScheduledObserver states
STOPPED == 0
RUNNING == 1
PENDING == 2
FAULTED == 9

\* handles the scheduler can hand out: one per producer call at most
Handles == 1..MaxCalls

\* ===================================================================
\* rx.concurrency.Atomic (not part of the sources kept here): a value
\* guarded by the lock given to its constructor, Atomic(x, self.lock).
\* An operation is one atomic step that needs the (reentrant) lock.
\* ===================================================================
LockAvail(t) == lock = Free \/ lock = t

\* Atomic.exchange(value): the new value; the old one is what the caller reads
AtomicExchange(old, value) == value

\* Atomic.compareExchange(value, expected): the new value
AtomicCompareExchange(old, value, expected) == IF old = expected THEN value ELSE old

\* ===================================================================
\* ObserverBase
\* ===================================================================
TerminalOps == {"onError", "onCompleted", "fail"}
BaseOps == {"onNext", "onError", "onCompleted", "dispose", "fail"}

\* the lock after thread t returns from the method it called: onNext (both
\* revisions) and the legacy terminal methods hold it for the whole call
Unlock(t) == IF lock = t THEN Free ELSE lock

\* thread t returns from the method it called: its locals are gone
Returned(t) ==
    /\ pc' = [pc EXCEPT ![t] = "idle"]
    /\ op' = [op EXCEPT ![t] = "none"]
    /\ arg' = [arg EXCEPT ![t] = None]
    /\ cid' = [cid EXCEPT ![t] = 0]
    /\ lock' = Unlock(t)

\* thread t goes on to the step at label
Goto(t, label) ==
    /\ pc' = [pc EXCEPT ![t] = label]
    /\ UNCHANGED <<op, arg, cid, lock>>

\* a call begins (the record of issued calls is left to the caller)
Call(t, o, v, max) ==
    /\ pc[t] = "idle"
    /\ ncalls < max
    /\ ncalls' = ncalls + 1
    /\ pc' = [pc EXCEPT ![t] = o]
    /\ op' = [op EXCEPT ![t] = o]
    /\ arg' = [arg EXCEPT ![t] = v]
    /\ cid' = [cid EXCEPT ![t] = ncalls + 1]
    /\ UNCHANGED <<ver, isStopped, lock>>
    /\ UNCHANGED baseHist
    /\ UNCHANGED <<schedVars, schedHist, wrapVars>>

\* onNext entering without taking the lock
OnNextLock_mut(t) ==
    /\ pc[t] = "onNext"
    /\ pc' = [pc EXCEPT ![t] = "onNextChk"]
    /\ UNCHANGED <<ver, isStopped, lock, op, arg, cid, ncalls>>
    /\ UNCHANGED baseHist
    /\ UNCHANGED <<schedVars, schedHist, issued, wrapVars>>

\* onNext: `with self.lock:`
OnNextLock(t) ==
    /\ pc[t] = "onNext"
    /\ lock = Free
    /\ lock' = t
    /\ pc' = [pc EXCEPT ![t] = "onNextChk"]
    /\ UNCHANGED <<ver, isStopped, op, arg, cid, ncalls>>
    /\ UNCHANGED baseHist
    /\ UNCHANGED <<schedVars, schedHist, issued, wrapVars>>

\* onNext forwarding whatever the flag says
OnNextForwards_mut(stopped) == TRUE

\* onNext: does the call go on to onNextCore?
OnNextForwards(stopped) == ~stopped

\* onNext: `if self.isStopped: return`, else onNextCore(value)
OnNextChk(t) ==
    /\ pc[t] = "onNextChk"
    /\ IF OnNextForwards(isStopped)
         THEN Goto(t, "onNextCore")
         ELSE Returned(t)
    /\ UNCHANGED <<ver, isStopped, ncalls>>
    /\ UNCHANGED baseHist
    /\ UNCHANGED <<schedVars, schedHist, issued, wrapVars>>

\* the core handler a terminal method forwards to
CoreOf(o) == IF o = "onCompleted" THEN "onCompletedCore" ELSE "onErrorCore"

\* fail claiming the transition whatever exchange returned
FailResult_mut(old) == TRUE

\* what fail returns, from what exchange returned
FailResult(old) == ~old

\* the record of a returned fail call
FailReturned(t, result) ==
    IF op[t] = "fail" THEN failRet \cup {<<cid[t], result>>} ELSE failRet

\* the record of a call that changed the flag
Flipped(t, old, new) ==
    IF ~old /\ new THEN flips \cup {[id |-> cid[t], op |-> op[t]]} ELSE flips

\* a test of the flag that does not set it
StoppedAfterTerminal_mut(old) == old

\* the flag after onError / onCompleted / fail tested it
StoppedAfterTerminal(old) == AtomicExchange(old, TRUE)

\* rx: onError / onCompleted / fail: `self.isStopped.exchange(True)`
TerminalExchange(t) ==
    /\ ver = "rx"
    /\ pc[t] \in TerminalOps
    /\ LockAvail(t)
    /\ isStopped' = StoppedAfterTerminal(isStopped)
    /\ flips' = Flipped(t, isStopped, isStopped')
    /\ IF isStopped
         THEN /\ Returned(t)
              /\ failRet' = FailReturned(t, FailResult(TRUE))
         ELSE /\ Goto(t, CoreOf(op[t]))
              /\ failRet' = failRet
    /\ UNCHANGED <<ver, ncalls, coreLog>>
    /\ UNCHANGED <<schedVars, schedHist, issued, wrapVars>>

\* legacy: onError / onCompleted / fail: `with self.lock:`
TerminalLock(t) ==
    /\ ver = "legacy"
    /\ pc[t] \in TerminalOps
    /\ lock = Free
    /\ lock' = t
    /\ pc' = [pc EXCEPT ![t] = "terminalChk"]
    /\ UNCHANGED <<ver, isStopped, op, arg, cid, ncalls>>
    /\ UNCHANGED baseHist
    /\ UNCHANGED <<schedVars, schedHist, issued, wrapVars>>

\* legacy: `if self.isStopped: return`, else `self.isStopped = True` and the core
TerminalChk(t) ==
    /\ pc[t] = "terminalChk"
    /\ isStopped' = TRUE
    /\ flips' = Flipped(t, isStopped, isStopped')
    /\ IF isStopped
         THEN /\ Returned(t)
              /\ failRet' = FailReturned(t, FALSE)
         ELSE /\ Goto(t, CoreOf(op[t]))
              /\ failRet' = failRet
    /\ UNCHANGED <<ver, ncalls, coreLog>>
    /\ UNCHANGED <<schedVars, schedHist, issued, wrapVars>>

\* ObserverBase.dispose: rx `self.isStopped.value = True`,
\* legacy `with self.lock: self.isStopped = True`
BaseDispose(t) ==
    /\ pc[t] = "dispose"
    /\ IF ver = "rx" THEN LockAvail(t) ELSE lock = Free
    /\ isStopped' = TRUE
    /\ flips' = Flipped(t, isStopped, TRUE)
    /\ Returned(t)
    /\ UNCHANGED <<ver, ncalls, coreLog, failRet>>
    /\ UNCHANGED <<schedVars, schedHist, issued, wrapVars>>

\* the abstract core handlers of a class derived from ObserverBase
CoreLabels == {"onNextCore", "onErrorCore", "onCompletedCore"}
InCore(label) == "in:" \o label

\* onNextCore / onErrorCore / onCompletedCore is invoked
CoreBegin(t) ==
    /\ pc[t] \in CoreLabels
    /\ coreLog' = Append(coreLog, [kind |-> pc[t], thread |-> t, id |-> cid[t],
                                   at |-> ncalls])
    /\ pc' = [pc EXCEPT ![t] = InCore(pc[t])]
    /\ UNCHANGED <<ver, isStopped, lock, op, arg, cid, ncalls, flips, failRet>>
    /\ UNCHANGED <<schedVars, schedHist, issued, wrapVars>>

\* the core handler returns, and with it the method that called it
CoreEnd(t) ==
    /\ pc[t] \in {InCore(l) : l \in CoreLabels}
    /\ Returned(t)
    /\ failRet' = FailReturned(t, FailResult(FALSE))
    /\ UNCHANGED <<ver, isStopped, ncalls, coreLog, flips>>
    /\ UNCHANGED <<schedVars, schedHist, issued, wrapVars>>

\* ===================================================================
\* The wrappers as constructed
\* ===================================================================
\* CheckedObserver states
IDLE == 0
BUSY == 1
DONE == 2

\* CheckedObserver.__init__
CkInit ==
    /\ ckState = IDLE
    /\ ckLock = Free
    /\ ckPc = [t \in Threads |-> "idle"]
    /\ ckOp = [t \in Threads |-> "none"]
    /\ ckNested = [t \in Threads |-> "none"]
    /\ ckCalls = 0
    /\ ckTrace = <<>>
    /\ ckFinished = {}

\* AutoDetachObserver.__init__, but for the subscription
AdInit ==
    /\ adSlotDisposed = FALSE
    /\ adSubDisposed = 0
    /\ adTrace = <<>>
    /\ adEnded = {}

\* the SynchronizedObserver instances made with one lock
Instances == {1, 2}

\* SynchronizedObserver.__init__, for each instance
SyInit ==
    /\ syStopped = [i \in Instances |-> FALSE]
    /\ syLock = [i \in Instances |-> Free]
    /\ outerLock = Free
    /\ outerDepth = 0
    /\ syPc = [t \in Threads |-> "idle"]
    /\ syInst = [t \in Threads |-> 0]
    /\ syOp = [t \in Threads |-> "none"]
    /\ syCalls = 0

\* no add / remove was made yet
NoListCall == [op |-> "none", inst |-> 0, obs |-> 0, ret |-> 0, mid |-> FALSE]

\* ListObserver.__init__ of the first instance, made with members
LoInit(members) ==
    /\ loHeap = <<members>>
    /\ loMade = <<members>>
    /\ loBInst = 0
    /\ loBIdx = 0
    /\ loTrace = <<>>
    /\ loBOp = "none"
    /\ loBEnd = "none"
    /\ loCalls = 0
    /\ loLast = NoListCall

\* AsyncLockObserver.__init__, with a gate nobody has used yet
AlInit ==
    /\ alQueue = <<>>
    /\ alOwner = Free
    /\ alTrace = <<>>

\* the wrappers that a specification is not about
WrapInit ==
    /\ CkInit
    /\ adAssigned = FALSE
    /\ AdInit
    /\ SyInit
    /\ LoInit(<<>>)
    /\ AlInit

\* ===================================================================
\* SpecBase: threads calling one ObserverBase instance of either revision
\* ===================================================================
SchedInit ==
    /\ state = STOPPED
    /\ queue = <<>>
    /\ failed = FALSE
    /\ exception = None
    /\ completed = FALSE
    /\ nHandles = 0
    /\ runPc = [h \in Handles |-> "unscheduled"]
    /\ runNext = [h \in Handles |-> None]
    /\ runTerm = [h \in Handles |-> "none"]
    /\ cancelled = [h \in Handles |-> FALSE]
    /\ disposable = 0
    /\ serialDisposed = FALSE
    /\ dispatcherJob = FALSE
    /\ sem = 0
    /\ dpc = "unscheduled"
    /\ dnext = None
    /\ jobCancelled = FALSE
    /\ cancel = TRUE
    /\ upstreamDisposed = 0
    /\ nJobs = 0
    /\ trace = <<>>
    /\ inflight = 0
    /\ enqueued = <<>>
    /\ raised = 0
    /\ extDisposed = FALSE
    /\ disposeReturned = 0

BaseInit ==
    /\ isStopped = FALSE
    /\ lock = Free
    /\ pc = [t \in Threads |-> "idle"]
    /\ op = [t \in Threads |-> "none"]
    /\ arg = [t \in Threads |-> None]
    /\ cid = [t \in Threads |-> 0]
    /\ ncalls = 0
    /\ coreLog = <<>>
    /\ flips = {}
    /\ failRet = {}
    /\ issued = {}

InitBase ==
    /\ ver \in {"rx", "legacy"}
    /\ isLongRunning = FALSE
    /\ BaseInit
    /\ SchedInit
    /\ WrapInit

BaseCall(t) ==
    \E o \in BaseOps :
        /\ Call(t, o, None, MaxBaseCalls)
        /\ issued' = issued \cup {[id |-> ncalls + 1, op |-> o]}

NextBase ==
    \/ \E t \in Threads : BaseCall(t)
    \/ \E t \in Threads : OnNextLock(t)
    \/ \E t \in Threads : OnNextChk(t)
    \/ \E t \in Threads : TerminalExchange(t)
    \/ \E t \in Threads : TerminalLock(t)
    \/ \E t \in Threads : TerminalChk(t)
    \/ \E t \in Threads : BaseDispose(t)
    \/ \E t \in Threads : CoreBegin(t)
    \/ \E t \in Threads : CoreEnd(t)

SpecBase == InitBase /\ [][NextBase]_vars
\* ===================================================================
\* ScheduledObserver / ObserveOnObserver (src/rx/observer.py)
\* ===================================================================
prodVars == <<pc, op, arg, cid, ncalls>>
flagVars == <<failed, exception, completed>>
trampVars == <<nHandles, runPc, runNext, runTerm, cancelled>>
dedVars == <<dispatcherJob, dpc, dnext, nJobs>>
dispHist == <<extDisposed, disposeReturned>>
dispVars == <<disposable, serialDisposed, jobCancelled, sem, cancel, upstreamDisposed>>
obsHist == <<trace, inflight, raised>>
fixedVars == <<ver, isLongRunning, coreLog, failRet, issued, wrapVars>>

\* the exception passed to onError
Exc == 1

\* ensureActive: the strategy chosen by scheduler.isLongRunning
EnsureActive == IF isLongRunning THEN "ea_release" ELSE "eas_cas1"

\* a producer's call
ProducerCall(t) ==
    /\ \/ \E v \in {None, ncalls + 1} : Call(t, "onNext", v, MaxCalls)
       \/ \E o \in {"onError", "onCompleted", "dispose"} : Call(t, o, None, MaxCalls)
    /\ UNCHANGED issued

\* ScheduledObserver.onNextCore: self.queue.put(value); then ensureActive()
OnNextCore(t) ==
    /\ pc[t] = "onNextCore"
    /\ queue' = Append(queue, arg[t])
    /\ enqueued' = Append(enqueued, arg[t])
    /\ pc' = [pc EXCEPT ![t] = EnsureActive]
    /\ UNCHANGED <<fixedVars, isStopped, lock, op, arg, cid, ncalls, flips, state,
                   flagVars, trampVars, dedVars, dispVars, obsHist, dispHist>>

\* ScheduledObserver.onErrorCore: self.exception = exception
OnErrorCoreException(t) ==
    /\ pc[t] = "onErrorCore"
    /\ exception' = Exc
    /\ pc' = [pc EXCEPT ![t] = "onErrorCore2"]
    /\ UNCHANGED <<fixedVars, isStopped, lock, op, arg, cid, ncalls, flips, state, queue,
                   failed, completed, trampVars, dedVars, dispVars, obsHist,
                   enqueued, dispHist>>

\* ScheduledObserver.onErrorCore: self.failed = True; then ensureActive()
OnErrorCoreFailed(t) ==
    /\ pc[t] = "onErrorCore2"
    /\ failed' = TRUE
    /\ pc' = [pc EXCEPT ![t] = EnsureActive]
    /\ UNCHANGED <<fixedVars, isStopped, lock, op, arg, cid, ncalls, flips, state, queue,
                   exception, completed, trampVars, dedVars, dispVars, obsHist,
                   enqueued, dispHist>>

\* ScheduledObserver.onCompletedCore: self.completed = True; then ensureActive()
OnCompletedCore(t) ==
    /\ pc[t] = "onCompletedCore"
    /\ completed' = TRUE
    /\ pc' = [pc EXCEPT ![t] = EnsureActive]
    /\ UNCHANGED <<fixedVars, isStopped, lock, op, arg, cid, ncalls, flips, state, queue,
                   failed, exception, trampVars, dedVars, dispVars, obsHist,
                   enqueued, dispHist>>

\* ------------------------------------------ trampoline: ensureActiveSlow
\* where ensureActiveSlow goes on after compareExchange(RUNNING, STOPPED)
\* returned old: `(old == PENDING or old == RUNNING) and compareExchange(...)`
\* evaluates the second compareExchange for both values of old; the label
\* keeps the local `old`
EasAfterCas1(old) ==
    IF old = STOPPED THEN "eas_sched"
    ELSE IF old = PENDING THEN "eas_cas2_pending"
    ELSE "eas_cas2"

\* the labels of the second compareExchange
EasCas2Labels == {"eas_cas2", "eas_cas2_pending"}

\* compareExchange(RUNNING, STOPPED): the owner schedules, FAULTED returns,
\* otherwise the second compareExchange is tried
EasCas1(t) ==
    /\ pc[t] = "eas_cas1"
    /\ LockAvail(t)
    /\ state' = AtomicCompareExchange(state, RUNNING, STOPPED)
    /\ IF state = FAULTED
         THEN Returned(t)
         ELSE Goto(t, EasAfterCas1(state))
    /\ UNCHANGED <<fixedVars, isStopped, ncalls, flips, queue,
                   flagVars, trampVars, dedVars, dispVars, obsHist,
                   enqueued, dispHist>>

\* does the loop of ensureActiveSlow end, the second compareExchange having
\* returned old2?  `(old == PENDING or old == RUNNING) and
\* compareExchange(PENDING, RUNNING) == RUNNING`
EasBreaks(old2) == old2 = RUNNING

\* compareExchange(PENDING, RUNNING): break when it returned RUNNING, else loop
EasCas2(t) ==
    /\ pc[t] \in EasCas2Labels
    /\ LockAvail(t)
    /\ state' = AtomicCompareExchange(state, PENDING, RUNNING)
    /\ IF EasBreaks(state)
         THEN Returned(t)
         ELSE Goto(t, "eas_cas1")
    /\ UNCHANGED <<fixedVars, isStopped, ncalls, flips, queue,
                   flagVars, trampVars, dedVars, dispVars, obsHist,
                   enqueued, dispHist>>

\* self.disposable = self.scheduler.scheduleRecursiveWithState(None, self.run)
EasSchedule(t) ==
    /\ pc[t] = "eas_sched"
    /\ nHandles < MaxCalls
    /\ nHandles' = nHandles + 1
    /\ runPc' = [runPc EXCEPT ![nHandles + 1] = "pending"]
    /\ disposable' = nHandles + 1
    /\ Returned(t)
    /\ UNCHANGED <<fixedVars, isStopped, ncalls, flips, state, queue,
                   flagVars, runNext, runTerm, cancelled, dedVars,
                   serialDisposed, jobCancelled, sem, cancel, upstreamDisposed,
                   obsHist, enqueued, dispHist>>

\* ------------------------------------------ dedicated thread: ensureActive
\* self.dispatcherEvent.release()
EaRelease(t) ==
    /\ pc[t] = "ea_release"
    /\ sem' = sem + 1
    /\ pc' = [pc EXCEPT ![t] = "ed_check"]
    /\ UNCHANGED <<fixedVars, isStopped, lock, op, arg, cid, ncalls, flips, state, queue,
                   flagVars, trampVars, dedVars, disposable, serialDisposed,
                   jobCancelled, cancel, upstreamDisposed, obsHist,
                   enqueued, dispHist>>

\* ensureDispatcher: `if self.dispatcherJob != None: return`
EdCheck(t) ==
    /\ pc[t] = "ed_check"
    /\ IF dispatcherJob
         THEN Returned(t)
         ELSE Goto(t, "ed_lock")
    /\ UNCHANGED <<fixedVars, isStopped, ncalls, flips, state, queue,
                   flagVars, trampVars, dedVars, dispVars, obsHist,
                   enqueued, dispHist>>

\* ensureDispatcher entering its critical section without the lock
EdLock_mut(t) ==
    /\ pc[t] = "ed_lock"
    /\ pc' = [pc EXCEPT ![t] = "ed_create"]
    /\ UNCHANGED <<fixedVars, isStopped, lock, op, arg, cid, ncalls, flips, state, queue,
                   flagVars, trampVars, dedVars, dispVars, obsHist,
                   enqueued, dispHist>>

\* ensureDispatcher: `with self.lock:`
EdLock(t) ==
    /\ pc[t] = "ed_lock"
    /\ LockAvail(t)
    /\ lock' = t
    /\ pc' = [pc EXCEPT ![t] = "ed_create"]
    /\ UNCHANGED <<fixedVars, isStopped, op, arg, cid, ncalls, flips, state, queue,
                   flagVars, trampVars, dedVars, dispVars, obsHist,
                   enqueued, dispHist>>

\* ensureDispatcher, inside the lock: `if self.dispatcherJob == None:`
EdCreate(t) ==
    /\ pc[t] = "ed_create"
    /\ IF dispatcherJob
         THEN Returned(t)
         ELSE Goto(t, "ed_sched")
    /\ UNCHANGED <<fixedVars, isStopped, ncalls, flips, state, queue,
                   flagVars, trampVars, dedVars, dispVars, obsHist,
                   enqueued, dispHist>>

\* ensureDispatcher: self.dispatcherJob = scheduleLongRunning(self.dispatch),
\* which starts dispatch as a long-running job, and the job is put, with the
\* semaphore release, in the serial slot (a slot already disposed disposes
\* what is put in it)
EdSchedule(t) ==
    /\ pc[t] = "ed_sched"
    /\ dispatcherJob' = TRUE
    /\ nJobs' = nJobs + 1
    /\ dpc' = "acquire1"
    /\ jobCancelled' = serialDisposed
    /\ sem' = IF serialDisposed THEN sem + 1 ELSE sem
    /\ Returned(t)
    /\ UNCHANGED <<fixedVars, isStopped, ncalls, flips, state, queue,
                   flagVars, trampVars, dnext, disposable, serialDisposed,
                   cancel, upstreamDisposed, obsHist, enqueued, dispHist>>

\* ------------------------------------------------------------- dispose
\* ObserverBase.dispose: self.isStopped.value = True
DisposeStop ==
    /\ isStopped' = TRUE
    /\ flips' = IF isStopped THEN flips ELSE flips \cup {[id |-> 0, op |-> "dispose"]}

\* ScheduledObserver.dispose: self.disposable.dispose(), on the SerialDisposable
\* (and through it the dispatcher job and the semaphore release) or on the
\* handle of the scheduled step
DisposeDisposable ==
    IF disposable = 0
      THEN /\ serialDisposed' = TRUE
           /\ cancelled' = cancelled
           /\ IF dispatcherJob /\ ~serialDisposed
                THEN /\ jobCancelled' = TRUE
                     /\ sem' = sem + 1
                ELSE UNCHANGED <<jobCancelled, sem>>
      ELSE /\ cancelled' = [cancelled EXCEPT ![disposable] = TRUE]
           /\ UNCHANGED <<serialDisposed, jobCancelled, sem>>

\* an exchange that leaves the handle in place
CancelExchange_mut(old) == old

\* ObserveOnObserver.dispose: `old = self.cancel.exchange(None)`: what
\* self.cancel holds afterwards (FALSE stands for None)
CancelExchange(old) == AtomicExchange(old, FALSE)

\* dispose() called from outside, first step
ProducerDispose1(t) ==
    /\ pc[t] = "dispose"
    /\ LockAvail(t)
    /\ DisposeStop
    /\ extDisposed' = TRUE
    /\ UNCHANGED disposeReturned
    /\ pc' = [pc EXCEPT ![t] = "dispose2"]
    /\ UNCHANGED <<fixedVars, lock, op, arg, cid, ncalls, state, queue,
                   flagVars, trampVars, dedVars, dispVars, obsHist, enqueued>>

ProducerDispose2(t) ==
    /\ pc[t] = "dispose2"
    /\ DisposeDisposable
    /\ pc' = [pc EXCEPT ![t] = "dispose3"]
    /\ UNCHANGED <<fixedVars, isStopped, lock, op, arg, cid, ncalls, flips, state, queue,
                   flagVars, nHandles, runPc, runNext, runTerm, dedVars,
                   disposable, cancel, upstreamDisposed, obsHist,
                   enqueued, dispHist>>

\* `old = self.cancel.exchange(None)`; `if old != None:` goes on to
\* old.dispose(), else dispose() returns
ProducerDispose3(t) ==
    /\ pc[t] = "dispose3"
    /\ LockAvail(t)
    /\ cancel' = CancelExchange(cancel)
    /\ IF cancel
         THEN Goto(t, "dispose4") /\ UNCHANGED disposeReturned
         ELSE Returned(t) /\ disposeReturned' = disposeReturned + 1
    /\ UNCHANGED <<fixedVars, isStopped, ncalls, flips, state, queue,
                   flagVars, trampVars, dedVars, disposable, serialDisposed,
                   jobCancelled, sem, upstreamDisposed, obsHist, enqueued,
                   extDisposed>>

\* `old.dispose()` on the upstream handle, and dispose() returns
ProducerDispose4(t) ==
    /\ pc[t] = "dispose4"
    /\ upstreamDisposed' = upstreamDisposed + 1
    /\ disposeReturned' = disposeReturned + 1
    /\ Returned(t)
    /\ UNCHANGED <<fixedVars, isStopped, ncalls, flips, state, queue,
                   flagVars, trampVars, dedVars, disposable, serialDisposed,
                   jobCancelled, sem, cancel, obsHist, enqueued, extDisposed>>

\* --------------------------------------------------- trampoline: run
\* what the scheduler leaves unchanged when a step of run acts on its own
\* program counter only
RunLocal == <<fixedVars, isStopped, lock, prodVars, flips, flagVars, nHandles,
              dedVars, obsHist, enqueued, dispHist>>

\* the scheduler starts a scheduled step, unless its handle was disposed
RunStart(h) ==
    /\ runPc[h] = "pending"
    /\ ~cancelled[h]
    /\ runPc' = [runPc EXCEPT ![h] = "get"]
    /\ UNCHANGED <<RunLocal, state, queue, runNext, runTerm, cancelled, dispVars,
                   trace, inflight, raised>>

\* the item get_nowait hands to run: the head of the queue, None on Empty
GetNowait(q) == IF q = <<>> THEN None ELSE Head(q)

\* `next = self.queue.get_nowait()` (None on Empty); `if next != None: break`
RunGet(h) ==
    /\ runPc[h] = "get"
    /\ runNext' = [runNext EXCEPT ![h] = GetNowait(queue)]
    /\ queue' = IF queue = <<>> THEN queue ELSE Tail(queue)
    /\ runPc' = [runPc EXCEPT ![h] =
                    IF GetNowait(queue) # None THEN "setRunning" ELSE "chkFailed"]
    /\ UNCHANGED <<RunLocal, state, runTerm, cancelled, dispVars>>

\* `if self.failed:`
RunChkFailed(h) ==
    /\ runPc[h] = "chkFailed"
    /\ runPc' = [runPc EXCEPT ![h] = IF failed THEN "drained" ELSE "chkCompleted"]
    /\ runTerm' = [runTerm EXCEPT ![h] = IF failed THEN "E" ELSE @]
    /\ UNCHANGED <<RunLocal, state, queue, runNext, cancelled, dispVars>>

\* `if self.completed:`
RunChkCompleted(h) ==
    /\ runPc[h] = "chkCompleted"
    /\ runPc' = [runPc EXCEPT ![h] = IF completed THEN "drained" ELSE "cas"]
    /\ runTerm' = [runTerm EXCEPT ![h] = IF completed THEN "C" ELSE @]
    /\ UNCHANGED <<RunLocal, state, queue, runNext, cancelled, dispVars>>

\* `if not self.queue.empty(): continue`
RunDrained(h) ==
    /\ runPc[h] = "drained"
    /\ runPc' = [runPc EXCEPT ![h] = IF queue # <<>> THEN "get" ELSE "stop"]
    /\ UNCHANGED <<RunLocal, state, queue, runNext, runTerm, cancelled, dispVars>>

\* terminal branch: `self.state.value = ScheduledObserver.STOPPED`
RunStop(h) ==
    /\ runPc[h] = "stop"
    /\ lock = Free
    /\ state' = STOPPED
    /\ runPc' = [runPc EXCEPT ![h] = "terminal"]
    /\ UNCHANGED <<RunLocal, queue, runNext, runTerm, cancelled, dispVars>>

\* a terminal branch that always reports completion
TerminalNote_mut(h) == <<"C", None>>

\* the notification the terminal branch delivers
TerminalNote(h) == IF runTerm[h] = "E" THEN <<"E", exception>> ELSE <<"C", None>>

\* self.observer.onError(self.exception) / self.observer.onCompleted() begins
RunTerminalBegin(h) ==
    /\ runPc[h] = "terminal"
    /\ trace' = Append(trace, TerminalNote(h))
    /\ inflight' = inflight + 1
    /\ runPc' = [runPc EXCEPT ![h] = "inTerminal"]
    /\ runTerm' = [runTerm EXCEPT ![h] = "none"]
    /\ UNCHANGED <<fixedVars, isStopped, lock, prodVars, flips, flagVars, nHandles,
                   dedVars, raised, enqueued, dispHist, state, queue,
                   runNext, cancelled, dispVars>>

\* the inner observer's onError / onCompleted returns
RunTerminalEnd(h) ==
    /\ runPc[h] = "inTerminal"
    /\ inflight' = inflight - 1
    /\ runPc' = [runPc EXCEPT ![h] = "dispose1"]
    /\ UNCHANGED <<fixedVars, isStopped, lock, prodVars, flips, flagVars, nHandles,
                   dedVars, trace, raised, enqueued, dispHist, state, queue,
                   runNext, runTerm, cancelled, dispVars>>

\* self.dispose() after the terminal delivery, in its three steps
RunDispose1(h) ==
    /\ runPc[h] = "dispose1"
    /\ lock = Free
    /\ DisposeStop
    /\ runPc' = [runPc EXCEPT ![h] = "dispose2"]
    /\ UNCHANGED <<fixedVars, lock, prodVars, flagVars, nHandles, dedVars, obsHist,
                   enqueued, dispHist, state, queue, runNext, runTerm,
                   cancelled, dispVars>>

RunDispose2(h) ==
    /\ runPc[h] = "dispose2"
    /\ DisposeDisposable
    /\ runPc' = [runPc EXCEPT ![h] = "dispose3"]
    /\ UNCHANGED <<RunLocal, state, queue, runNext, runTerm, disposable, cancel,
                   upstreamDisposed>>

\* `old = self.cancel.exchange(None)`; `if old != None:` goes on to
\* old.dispose(), else dispose() and with it run return
RunDispose3(h) ==
    /\ runPc[h] = "dispose3"
    /\ lock = Free
    /\ cancel' = CancelExchange(cancel)
    /\ runPc' = [runPc EXCEPT ![h] = IF cancel THEN "dispose4" ELSE "done"]
    /\ disposeReturned' = IF cancel THEN disposeReturned ELSE disposeReturned + 1
    /\ UNCHANGED <<fixedVars, isStopped, lock, prodVars, flips, flagVars, nHandles,
                   dedVars, obsHist, enqueued, extDisposed, state, queue,
                   runNext, runTerm, cancelled, disposable, serialDisposed,
                   jobCancelled, sem, upstreamDisposed>>

\* `old.dispose()` on the upstream handle; dispose() and run return
RunDispose4(h) ==
    /\ runPc[h] = "dispose4"
    /\ upstreamDisposed' = upstreamDisposed + 1
    /\ disposeReturned' = disposeReturned + 1
    /\ runPc' = [runPc EXCEPT ![h] = "done"]
    /\ UNCHANGED <<fixedVars, isStopped, lock, prodVars, flips, flagVars, nHandles,
                   dedVars, obsHist, enqueued, extDisposed, state, queue,
                   runNext, runTerm, cancelled, disposable, serialDisposed,
                   jobCancelled, sem, cancel>>

\* does run return after compareExchange(STOPPED, RUNNING) returned old?
RunReturns(old) == old = RUNNING \/ old = FAULTED

\* empty queue, no terminal flag: `old = compareExchange(STOPPED, RUNNING)`;
\* `if old == RUNNING or old == FAULTED: return`
RunCas(h) ==
    /\ runPc[h] = "cas"
    /\ lock = Free
    /\ state' = AtomicCompareExchange(state, STOPPED, RUNNING)
    /\ runPc' = [runPc EXCEPT ![h] = IF RunReturns(state) THEN "done" ELSE "forceRunning"]
    /\ UNCHANGED <<RunLocal, queue, runNext, runTerm, cancelled, dispVars>>

\* `self.state.value = ScheduledObserver.RUNNING` at the end of the loop body
RunForceRunning(h) ==
    /\ runPc[h] = "forceRunning"
    /\ lock = Free
    /\ state' = RUNNING
    /\ runPc' = [runPc EXCEPT ![h] = "get"]
    /\ UNCHANGED <<RunLocal, queue, runNext, runTerm, cancelled, dispVars>>

\* an item was found: `self.state.value = ScheduledObserver.RUNNING`
RunSetRunning(h) ==
    /\ runPc[h] = "setRunning"
    /\ lock = Free
    /\ state' = RUNNING
    /\ runPc' = [runPc EXCEPT ![h] = "deliver"]
    /\ UNCHANGED <<RunLocal, queue, runNext, runTerm, cancelled, dispVars>>

\* self.observer.onNext(next) begins
RunDeliverBegin(h) ==
    /\ runPc[h] = "deliver"
    /\ trace' = Append(trace, <<"N", runNext[h]>>)
    /\ inflight' = inflight + 1
    /\ runPc' = [runPc EXCEPT ![h] = "delivering"]
    /\ runNext' = [runNext EXCEPT ![h] = None]
    /\ UNCHANGED <<fixedVars, isStopped, lock, prodVars, flips, flagVars, nHandles,
                   dedVars, raised, enqueued, dispHist, state, queue,
                   runTerm, cancelled, dispVars>>

\* the inner observer's onNext returns
RunDeliverOk(h) ==
    /\ runPc[h] = "delivering"
    /\ inflight' = inflight - 1
    /\ runPc' = [runPc EXCEPT ![h] = "cont"]
    /\ UNCHANGED <<fixedVars, isStopped, lock, prodVars, flips, flagVars, nHandles,
                   dedVars, trace, raised, enqueued, dispHist, state, queue,
                   runNext, runTerm, cancelled, dispVars>>

\* the inner observer's onNext raises
RunDeliverRaise(h) ==
    /\ runPc[h] = "delivering"
    /\ inflight' = inflight - 1
    /\ raised' = raised + 1
    /\ runPc' = [runPc EXCEPT ![h] = "fault"]
    /\ UNCHANGED <<fixedVars, isStopped, lock, prodVars, flips, flagVars, nHandles,
                   dedVars, trace, enqueued, dispHist, state, queue,
                   runNext, runTerm, cancelled, dispVars>>

\* an exception handler that leaves the dispatcher idle instead of disabled
StateOnFault_mut == STOPPED

\* the state run's exception handler sets
StateOnFault == FAULTED

\* `except Exception as e: self.state.value = ScheduledObserver.FAULTED`
RunFault(h) ==
    /\ runPc[h] = "fault"
    /\ lock = Free
    /\ state' = StateOnFault
    /\ runPc' = [runPc EXCEPT ![h] = "clear"]
    /\ UNCHANGED <<RunLocal, queue, runNext, runTerm, cancelled, dispVars>>

\* clearQueue: `self.queue.get()` returns an item, which is dropped
RunClearGet(h) ==
    /\ runPc[h] \in {"clear", "clearBlocked"}
    /\ queue # <<>>
    /\ queue' = Tail(queue)
    /\ runPc' = [runPc EXCEPT ![h] = "clear"]
    /\ UNCHANGED <<RunLocal, state, runNext, runTerm, cancelled, dispVars>>

\* clearQueue: `self.queue.get()` on an empty queue.  Queue.get() blocks
\* (block=True is its default) until an item is put: Empty is never raised,
\* so `except Empty: pass` and the `raise e` after clearQueue() are not reached
RunClearBlock(h) ==
    /\ runPc[h] = "clear"
    /\ queue = <<>>
    /\ runPc' = [runPc EXCEPT ![h] = "clearBlocked"]
    /\ UNCHANGED <<RunLocal, state, queue, runNext, runTerm, cancelled, dispVars>>

\* continuation(state): the scheduler queues the next step under the same
\* handle; nothing is queued under a disposed handle
RunContinuation(h) ==
    /\ runPc[h] = "cont"
    /\ runPc' = [runPc EXCEPT ![h] = IF cancelled[h] THEN "done" ELSE "pending"]
    /\ UNCHANGED <<RunLocal, state, queue, runNext, runTerm, cancelled, dispVars>>

\* ------------------------------------------- dedicated thread: dispatch
DispatchLocal == <<fixedVars, isStopped, lock, prodVars, flips, flagVars, trampVars,
                   dispatcherJob, nJobs, enqueued, dispHist, state, disposable,
                   serialDisposed, jobCancelled, cancel, upstreamDisposed>>

\* self.dispatcherEvent.acquire(), before the first item and after each item
DispatchAcquire ==
    /\ dpc \in {"acquire1", "acquire2"}
    /\ sem > 0
    /\ sem' = sem - 1
    /\ dpc' = IF dpc = "acquire1" THEN "chkCancel1" ELSE "chkCancel2"
    /\ UNCHANGED <<DispatchLocal, queue, dnext, obsHist>>

\* `if cancel.isDisposed: return`
DispatchChkCancel ==
    /\ dpc \in {"chkCancel1", "chkCancel2"}
    /\ dpc' = IF jobCancelled THEN "returned" ELSE "get"
    /\ UNCHANGED <<DispatchLocal, sem, queue, dnext, obsHist>>

\* `next = self.queue.get()`: blocks while the queue is empty
DispatchGet ==
    /\ dpc = "get"
    /\ queue # <<>>
    /\ dnext' = Head(queue)
    /\ queue' = Tail(queue)
    /\ dpc' = "deliver"
    /\ UNCHANGED <<DispatchLocal, sem, obsHist>>

\* self.observer.onNext(next) begins
DispatchDeliverBegin ==
    /\ dpc = "deliver"
    /\ trace' = Append(trace, <<"N", dnext>>)
    /\ inflight' = inflight + 1
    /\ dpc' = "delivering"
    /\ dnext' = None
    /\ UNCHANGED <<DispatchLocal, sem, queue, raised>>

\* the inner observer's onNext returns
DispatchDeliverOk ==
    /\ dpc = "delivering"
    /\ inflight' = inflight - 1
    /\ dpc' = "acquire2"
    /\ UNCHANGED <<DispatchLocal, sem, queue, dnext, trace, raised>>

\* the inner observer's onNext raises: `except Exception as e: self.clearQueue()`
DispatchDeliverRaise ==
    /\ dpc = "delivering"
    /\ inflight' = inflight - 1
    /\ raised' = raised + 1
    /\ dpc' = "clear"
    /\ UNCHANGED <<DispatchLocal, sem, queue, dnext, trace>>

\* clearQueue: `self.queue.get()` returns an item, which is dropped
DispatchClearGet ==
    /\ dpc \in {"clear", "clearBlocked"}
    /\ queue # <<>>
    /\ queue' = Tail(queue)
    /\ dpc' = "clear"
    /\ UNCHANGED <<DispatchLocal, sem, dnext, obsHist>>

\* clearQueue: `self.queue.get()` on an empty queue blocks
DispatchClearBlock ==
    /\ dpc = "clear"
    /\ queue = <<>>
    /\ dpc' = "clearBlocked"
    /\ UNCHANGED <<DispatchLocal, sem, queue, dnext, obsHist>>

\* The rest of dispatch (`if self.failed: ...`, `if self.completed: ...`,
\* lines 285-295) follows an inner `while True:` that is left only by
\* `return` or by an exception: it is never executed and has no action.

\* ===================================================================
\* SpecObserveOn: producers calling one ObserveOnObserver, the scheduler
\* running its steps on other threads, under either strategy
\* ===================================================================
InitObserveOn ==
    /\ ver = "rx"
    /\ isLongRunning \in BOOLEAN
    /\ BaseInit
    /\ SchedInit
    /\ WrapInit

NextObserveOn ==
    \/ \E t \in Producers : ProducerCall(t)
    \/ \E t \in Producers : OnNextLock(t)
    \/ \E t \in Producers : OnNextChk(t)
    \/ \E t \in Producers : TerminalExchange(t)
    \/ \E t \in Producers : OnNextCore(t)
    \/ \E t \in Producers : OnErrorCoreException(t)
    \/ \E t \in Producers : OnErrorCoreFailed(t)
    \/ \E t \in Producers : OnCompletedCore(t)
    \/ \E t \in Producers : EasCas1(t)
    \/ \E t \in Producers : EasCas2(t)
    \/ \E t \in Producers : EasSchedule(t)
    \/ \E t \in Producers : EaRelease(t)
    \/ \E t \in Producers : EdCheck(t)
    \/ \E t \in Producers : EdLock(t)
    \/ \E t \in Producers : EdCreate(t)
    \/ \E t \in Producers : EdSchedule(t)
    \/ \E t \in Producers : ProducerDispose1(t)
    \/ \E t \in Producers : ProducerDispose2(t)
    \/ \E t \in Producers : ProducerDispose3(t)
    \/ \E t \in Producers : ProducerDispose4(t)
    \/ \E h \in Handles : RunStart(h)
    \/ \E h \in Handles : RunGet(h)
    \/ \E h \in Handles : RunChkFailed(h)
    \/ \E h \in Handles : RunChkCompleted(h)
    \/ \E h \in Handles : RunDrained(h)
    \/ \E h \in Handles : RunStop(h)
    \/ \E h \in Handles : RunTerminalBegin(h)
    \/ \E h \in Handles : RunTerminalEnd(h)
    \/ \E h \in Handles : RunDispose1(h)
    \/ \E h \in Handles : RunDispose2(h)
    \/ \E h \in Handles : RunDispose3(h)
    \/ \E h \in Handles : RunDispose4(h)
    \/ \E h \in Handles : RunCas(h)
    \/ \E h \in Handles : RunForceRunning(h)
    \/ \E h \in Handles : RunSetRunning(h)
    \/ \E h \in Handles : RunDeliverBegin(h)
    \/ \E h \in Handles : RunDeliverOk(h)
    \/ \E h \in Handles : RunDeliverRaise(h)
    \/ \E h \in Handles : RunFault(h)
    \/ \E h \in Handles : RunClearGet(h)
    \/ \E h \in Handles : RunClearBlock(h)
    \/ \E h \in Handles : RunContinuation(h)
    \/ DispatchAcquire
    \/ DispatchChkCancel
    \/ DispatchGet
    \/ DispatchDeliverBegin
    \/ DispatchDeliverOk
    \/ DispatchDeliverRaise
    \/ DispatchClearGet
    \/ DispatchClearBlock

SpecObserveOn == InitObserveOn /\ [][NextObserveOn]_vars

\* ===================================================================
\* SpecScheduled: the ScheduledObserver that notifyOn(scheduler) returns
\* (not an ObserveOnObserver): threads call onNext / onError / onCompleted,
\* whose core handlers are ScheduledObserver's own, and ensureActive();
\* the inner observer does not raise here
\* ===================================================================
NotifyOps == {"onNext", "onError", "onCompleted"}

\* a core handler that goes on to wake the delivery
SchedCoreEnds_mut == FALSE

\* ScheduledObserver.onNextCore / onErrorCore / onCompletedCore end after the
\* put or the flag assignment: there is no call of ensureActive in them
SchedCoreEnds == TRUE

\* a call on the ScheduledObserver
ScheduledCall(t) ==
    /\ \/ Call(t, "onNext", ncalls + 1, MaxCalls)
       \/ \E o \in {"onError", "onCompleted", "ensureActive"} :
             Call(t, o, None, MaxCalls)
    /\ issued' = issued \cup {[id |-> ncalls + 1, op |-> pc'[t]]}

\* ScheduledObserver.onNextCore: self.queue.put(value)
SchedOnNextCore(t) ==
    /\ pc[t] = "onNextCore"
    /\ queue' = Append(queue, arg[t])
    /\ enqueued' = Append(enqueued, arg[t])
    /\ IF SchedCoreEnds THEN Returned(t) ELSE Goto(t, EnsureActive)
    /\ UNCHANGED <<fixedVars, isStopped, ncalls, flips, state,
                   flagVars, trampVars, dedVars, dispVars, obsHist, dispHist>>

\* ScheduledObserver.onErrorCore: self.failed = True
SchedOnErrorCoreFailed(t) ==
    /\ pc[t] = "onErrorCore2"
    /\ failed' = TRUE
    /\ IF SchedCoreEnds THEN Returned(t) ELSE Goto(t, EnsureActive)
    /\ UNCHANGED <<fixedVars, isStopped, ncalls, flips, state, queue,
                   exception, completed, trampVars, dedVars, dispVars, obsHist,
                   enqueued, dispHist>>

\* ScheduledObserver.onCompletedCore: self.completed = True
SchedOnCompletedCore(t) ==
    /\ pc[t] = "onCompletedCore"
    /\ completed' = TRUE
    /\ IF SchedCoreEnds THEN Returned(t) ELSE Goto(t, EnsureActive)
    /\ UNCHANGED <<fixedVars, isStopped, ncalls, flips, state, queue,
                   failed, exception, trampVars, dedVars, dispVars, obsHist,
                   enqueued, dispHist>>

\* ensureActive() called directly: `if self.scheduler.isLongRunning:`
EnsureActiveEnter(t) ==
    /\ pc[t] = "ensureActive"
    /\ Goto(t, EnsureActive)
    /\ UNCHANGED <<fixedVars, isStopped, ncalls, flips, state, queue,
                   flagVars, trampVars, dedVars, dispVars, obsHist,
                   enqueued, dispHist>>

\* ScheduledObserver.dispose ends with self.disposable.dispose(): the
\* self.dispose() of run's terminal branch returns, and run with it
SchedRunDispose2(h) ==
    /\ runPc[h] = "dispose2"
    /\ DisposeDisposable
    /\ runPc' = [runPc EXCEPT ![h] = "done"]
    /\ disposeReturned' = disposeReturned + 1
    /\ UNCHANGED <<fixedVars, isStopped, lock, prodVars, flips, flagVars, nHandles,
                   dedVars, obsHist, enqueued, extDisposed, state, queue,
                   runNext, runTerm, disposable, cancel, upstreamDisposed>>

InitScheduled ==
    /\ ver = "rx"
    /\ isLongRunning \in BOOLEAN
    /\ BaseInit
    /\ SchedInit
    /\ WrapInit

NextScheduled ==
    \/ \E t \in Producers : ScheduledCall(t)
    \/ \E t \in Producers : OnNextLock(t)
    \/ \E t \in Producers : OnNextChk(t)
    \/ \E t \in Producers : TerminalExchange(t)
    \/ \E t \in Producers : SchedOnNextCore(t)
    \/ \E t \in Producers : OnErrorCoreException(t)
    \/ \E t \in Producers : SchedOnErrorCoreFailed(t)
    \/ \E t \in Producers : SchedOnCompletedCore(t)
    \/ \E t \in Producers : EnsureActiveEnter(t)
    \/ \E t \in Producers : EasCas1(t)
    \/ \E t \in Producers : EasCas2(t)
    \/ \E t \in Producers : EasSchedule(t)
    \/ \E t \in Producers : EaRelease(t)
    \/ \E t \in Producers : EdCheck(t)
    \/ \E t \in Producers : EdLock(t)
    \/ \E t \in Producers : EdCreate(t)
    \/ \E t \in Producers : EdSchedule(t)
    \/ \E h \in Handles : RunStart(h)
    \/ \E h \in Handles : RunGet(h)
    \/ \E h \in Handles : RunChkFailed(h)
    \/ \E h \in Handles : RunChkCompleted(h)
    \/ \E h \in Handles : RunDrained(h)
    \/ \E h \in Handles : RunStop(h)
    \/ \E h \in Handles : RunTerminalBegin(h)
    \/ \E h \in Handles : RunTerminalEnd(h)
    \/ \E h \in Handles : RunDispose1(h)
    \/ \E h \in Handles : SchedRunDispose2(h)
    \/ \E h \in Handles : RunCas(h)
    \/ \E h \in Handles : RunForceRunning(h)
    \/ \E h \in Handles : RunSetRunning(h)
    \/ \E h \in Handles : RunDeliverBegin(h)
    \/ \E h \in Handles : RunDeliverOk(h)
    \/ \E h \in Handles : RunContinuation(h)
    \/ DispatchAcquire
    \/ DispatchChkCancel
    \/ DispatchGet
    \/ DispatchDeliverBegin
    \/ DispatchDeliverOk

SpecScheduled == InitScheduled /\ [][NextScheduled]_vars

\* ===================================================================
\* SpecRunToCompletion: one producer calling an ObserveOnObserver on a
\* trampoline scheduler that runs every scheduled step to its end before
\* the producer makes its next call; values are not None, the inner
\* observer does not raise, dispose() is not called from outside
\* ===================================================================
Producer == "t1"

\* no step is scheduled or running
StepsFinished == \A h \in Handles : runPc[h] \in {"unscheduled", "done"}

\* the producer's next call, made when the scheduler has nothing left to run
SequentialCall(t) ==
    /\ StepsFinished
    /\ \/ Call(t, "onNext", ncalls + 1, MaxCalls)
       \/ \E o \in {"onError", "onCompleted"} : Call(t, o, None, MaxCalls)
    /\ issued' = issued \cup {[id |-> ncalls + 1, op |-> pc'[t]]}

InitRunToCompletion ==
    /\ ver = "rx"
    /\ isLongRunning = FALSE
    /\ BaseInit
    /\ SchedInit
    /\ WrapInit

NextRunToCompletion ==
    \/ SequentialCall(Producer)
    \/ OnNextLock(Producer)
    \/ OnNextChk(Producer)
    \/ TerminalExchange(Producer)
    \/ OnNextCore(Producer)
    \/ OnErrorCoreException(Producer)
    \/ OnErrorCoreFailed(Producer)
    \/ OnCompletedCore(Producer)
    \/ EasCas1(Producer)
    \/ EasSchedule(Producer)
    \/ \E h \in Handles : RunStart(h)
    \/ \E h \in Handles : RunGet(h)
    \/ \E h \in Handles : RunChkFailed(h)
    \/ \E h \in Handles : RunChkCompleted(h)
    \/ \E h \in Handles : RunDrained(h)
    \/ \E h \in Handles : RunStop(h)
    \/ \E h \in Handles : RunTerminalBegin(h)
    \/ \E h \in Handles : RunTerminalEnd(h)
    \/ \E h \in Handles : RunDispose1(h)
    \/ \E h \in Handles : RunDispose2(h)
    \/ \E h \in Handles : RunDispose3(h)
    \/ \E h \in Handles : RunDispose4(h)
    \/ \E h \in Handles : RunCas(h)
    \/ \E h \in Handles : RunSetRunning(h)
    \/ \E h \in Handles : RunDeliverBegin(h)
    \/ \E h \in Handles : RunDeliverOk(h)
    \/ \E h \in Handles : RunContinuation(h)

SpecRunToCompletion == InitRunToCompletion /\ [][NextRunToCompletion]_vars

\* ===================================================================
\* SpecChecked: threads calling one CheckedObserver of either revision;
\* the inner observer may call back into it, return or raise
\* ===================================================================
\* calls made on the CheckedObserver, the inner observer's included
MaxCheckedCalls == 4

CheckedOps == {"onNext", "onError", "onCompleted"}

\* what a step of the CheckedObserver leaves alone
ckOthers == <<baseVars, baseHist, issued, schedVars, schedHist, adVars, syVars, loVars,
             alVars>>

\* an access check that does not notice a call in flight
CheckAccessResult_mut(old) == IF old = DONE THEN "raiseDone" ELSE "forward"

\* checkAccess, from the state it found: this observer is currently busy,
\* this observer already terminated, or the call goes on
CheckAccessResult(old) ==
    IF old = BUSY THEN "raiseBusy"
    ELSE IF old = DONE THEN "raiseDone"
    ELSE "forward"

\* the state checkAccess leaves: compareExchange(BUSY, IDLE); in the earlier
\* revision `self.state = BUSY` in the branch that neither found BUSY nor DONE
CheckAccessState(old) == AtomicCompareExchange(old, BUSY, IDLE)

\* a `finally` that always goes back to IDLE
StateAfter_mut(o) == IDLE

\* the state the `finally` of method o sets
StateAfter(o) == IF o = "onNext" THEN IDLE ELSE DONE

\* a thread calls onNext / onError / onCompleted
CkCall(t) ==
    /\ ckPc[t] = "idle"
    /\ ckCalls < MaxCheckedCalls
    /\ ckCalls' = ckCalls + 1
    /\ \E o \in CheckedOps : ckOp' = [ckOp EXCEPT ![t] = o]
    /\ ckPc' = [ckPc EXCEPT ![t] = "check"]
    /\ UNCHANGED <<ckState, ckLock, ckNested, ckTrace, ckFinished, ckOthers>>

\* earlier revision, checkAccess: `with self.lock:`
CkAccessLock(t) ==
    /\ ver = "legacy"
    /\ ckPc[t] = "check"
    /\ ckLock = Free
    /\ ckLock' = t
    /\ ckPc' = [ckPc EXCEPT ![t] = "checkLocked"]
    /\ UNCHANGED <<ckState, ckOp, ckNested, ckCalls, ckTrace, ckFinished, ckOthers>>

\* checkAccess: the test of the state and its change to BUSY (one
\* compareExchange, or the if / elif / else under the lock, which a raise
\* releases as well)
CkCheckAccess(t) ==
    /\ \/ ver = "rx" /\ ckPc[t] = "check"
       \/ ver = "legacy" /\ ckPc[t] = "checkLocked"
    /\ ckState' = CheckAccessState(ckState)
    /\ ckPc' = [ckPc EXCEPT ![t] = CheckAccessResult(ckState)]
    /\ ckLock' = IF ckLock = t THEN Free ELSE ckLock
    /\ UNCHANGED <<ckOp, ckNested, ckCalls, ckTrace, ckFinished, ckOthers>>

\* the error raised by checkAccess reaches the caller
CkRaise(t) ==
    /\ ckPc[t] \in {"raiseBusy", "raiseDone"}
    /\ ckPc' = [ckPc EXCEPT ![t] = "idle"]
    /\ ckOp' = [ckOp EXCEPT ![t] = "none"]
    /\ UNCHANGED <<ckState, ckLock, ckNested, ckCalls, ckTrace, ckFinished, ckOthers>>

\* `self.observer.onNext(value)` / onError / onCompleted begins
CkForward(t) ==
    /\ ckPc[t] = "forward"
    /\ ckTrace' = Append(ckTrace, ckOp[t])
    /\ ckPc' = [ckPc EXCEPT ![t] = "inInner"]
    /\ UNCHANGED <<ckState, ckLock, ckOp, ckNested, ckCalls, ckFinished, ckOthers>>

\* the inner observer, inside the forwarded call, calls the CheckedObserver:
\* the whole nested call (an access check that raises, or a forwarded call
\* and its `finally`)
CkReentrant(t) ==
    /\ ckPc[t] = "inInner"
    /\ ckCalls < MaxCheckedCalls
    /\ ver = "legacy" => ckLock = Free
    /\ ckCalls' = ckCalls + 1
    /\ \E o \in CheckedOps :
          IF CheckAccessResult(ckState) = "forward"
            THEN /\ ckTrace' = Append(ckTrace, o)
                 /\ ckState' = StateAfter(o)
                 /\ ckFinished' = ckFinished \cup {<<o, "ok">>}
                 /\ ckNested' = [ckNested EXCEPT ![t] = "forwarded"]
            ELSE /\ ckNested' = [ckNested EXCEPT ![t] =
                        IF CheckAccessResult(ckState) = "raiseBusy"
                          THEN "busy" ELSE "done"]
                 /\ ckState' = CheckAccessState(ckState)
                 /\ UNCHANGED <<ckTrace, ckFinished>>
    /\ UNCHANGED <<ckLock, ckPc, ckOp, ckOthers>>

\* the forwarded call returns
CkInnerReturns(t) ==
    /\ ckPc[t] = "inInner"
    /\ ckPc' = [ckPc EXCEPT ![t] = "finallyOk"]
    /\ UNCHANGED <<ckState, ckLock, ckOp, ckNested, ckCalls, ckTrace, ckFinished, ckOthers>>

\* the forwarded call raises
CkInnerRaises(t) ==
    /\ ckPc[t] = "inInner"
    /\ ckPc' = [ckPc EXCEPT ![t] = "finallyExc"]
    /\ UNCHANGED <<ckState, ckLock, ckOp, ckNested, ckCalls, ckTrace, ckFinished, ckOthers>>

\* `finally: self.state.value = IDLE` (onNext) or DONE (onError,
\* onCompleted), in the earlier revision under the lock; the call ends
CkFinally(t) ==
    /\ ckPc[t] \in {"finallyOk", "finallyExc"}
    /\ ver = "legacy" => ckLock = Free
    /\ ckState' = StateAfter(ckOp[t])
    /\ ckFinished' = ckFinished \cup
          {<<ckOp[t], IF ckPc[t] = "finallyOk" THEN "ok" ELSE "exc">>}
    /\ ckPc' = [ckPc EXCEPT ![t] = "idle"]
    /\ ckOp' = [ckOp EXCEPT ![t] = "none"]
    /\ ckNested' = [ckNested EXCEPT ![t] = "none"]
    /\ UNCHANGED <<ckLock, ckCalls, ckTrace, ckOthers>>

InitChecked ==
    /\ ver \in {"rx", "legacy"}
    /\ isLongRunning = FALSE
    /\ BaseInit
    /\ SchedInit
    /\ WrapInit

NextChecked ==
    \/ \E t \in Producers : CkCall(t)
    \/ \E t \in Producers : CkAccessLock(t)
    \/ \E t \in Producers : CkCheckAccess(t)
    \/ \E t \in Producers : CkRaise(t)
    \/ \E t \in Producers : CkForward(t)
    \/ \E t \in Producers : CkReentrant(t)
    \/ \E t \in Producers : CkInnerReturns(t)
    \/ \E t \in Producers : CkInnerRaises(t)
    \/ \E t \in Producers : CkFinally(t)

SpecChecked == InitChecked /\ [][NextChecked]_vars

\* ===================================================================
\* SpecAutoDetach: threads calling one AutoDetachObserver
\* (src/rx/observer.py; the earlier revision's constructor passes three
\* arguments to ObserverBase.__init__, which takes none, so it makes no
\* instance).  The slot self.m is a SingleAssignmentDisposable, which is
\* not part of the sources kept here: dispose() is idempotent and disposes
\* what the slot holds, assigning to a disposed slot disposes the
\* assigned.
\* ===================================================================
\* calls made on the AutoDetachObserver
MaxDetachCalls == 3

DetachOps == {"onNext", "onError", "onCompleted", "dispose"}

\* what a step of the AutoDetachObserver leaves alone
adOthers == <<ver, coreLog, failRet, schedVars, schedHist, ckVars, syVars, loVars,
             alVars>>

\* the steps of dispose(), told apart by what called it: "call" a caller of
\* the wrapper, "ok" the finally of a core handler whose forwarded call
\* returned, "exc" the finally of one whose forwarded call raised
DisposeCtx == {"call", "ok", "exc"}
AdStop(ctx) == "adStop:" \o ctx
AdSlot(ctx) == "adSlot:" \o ctx
AdLock(ctx) == IF ctx = "call" THEN "dispose" ELSE "adLock:" \o ctx

\* SingleAssignmentDisposable.dispose(): does it dispose the subscription?
SlotDisposes(assigned, disposed) == assigned /\ ~disposed

\* a terminal handler that disposes in an `except`, not in a `finally`
DisposesAfter_mut(o, exc) == exc

\* an onNextCore without its `finally`
DisposesAfter_mut2(o, exc) == o # "onNext"

\* does the core handler of method o call self.dispose() after the forwarded
\* call?  onNextCore: `if not noError`; onErrorCore, onCompletedCore: always
DisposesAfter(o, exc) == IF o = "onNext" THEN exc ELSE TRUE

\* the way of termination that a finished call stands for
EndKind(o, exc) == IF o = "onNext" THEN "onNextRaise" ELSE o

\* a thread calls onNext / onError / onCompleted / dispose
AdCall(t) ==
    /\ \E o \in DetachOps : Call(t, o, None, MaxDetachCalls)
    /\ issued' = issued \cup {[id |-> ncalls + 1, op |-> pc'[t]]}

\* the `disposable` property is set: self.m.disposable = value
AdAssign ==
    /\ ~adAssigned
    /\ adAssigned' = TRUE
    /\ adSubDisposed' = IF adSlotDisposed THEN adSubDisposed + 1 ELSE adSubDisposed
    /\ UNCHANGED <<adSlotDisposed, adTrace, adEnded>>
    /\ UNCHANGED <<isStopped, lock, pc, op, arg, cid, ncalls, flips, issued, adOthers>>

\* a core handler begins: self.observer.onNext(value) / onError / onCompleted
AdForward(t) ==
    /\ pc[t] \in CoreLabels
    /\ adTrace' = Append(adTrace, op[t])
    /\ Goto(t, "adInner")
    /\ UNCHANGED <<adAssigned, adSlotDisposed, adSubDisposed, adEnded>>
    /\ UNCHANGED <<isStopped, ncalls, flips, issued, adOthers>>

\* the forwarded call returns; the handler's `finally` follows
AdInnerReturns(t) ==
    /\ pc[t] = "adInner"
    /\ IF DisposesAfter(op[t], FALSE)
         THEN Goto(t, AdLock("ok")) /\ UNCHANGED adEnded
         ELSE /\ Returned(t)
              /\ adEnded' = IF op[t] = "onNext" THEN adEnded
                             ELSE adEnded \cup {<<EndKind(op[t], FALSE), cid[t]>>}
    /\ UNCHANGED <<adAssigned, adSlotDisposed, adSubDisposed, adTrace>>
    /\ UNCHANGED <<isStopped, ncalls, flips, issued, adOthers>>

\* the forwarded call raises; the handler's `finally` follows
AdInnerRaises(t) ==
    /\ pc[t] = "adInner"
    /\ Goto(t, IF DisposesAfter(op[t], TRUE) THEN AdLock("exc") ELSE "adPropagate")
    /\ UNCHANGED adVars
    /\ UNCHANGED <<isStopped, ncalls, flips, issued, adOthers>>

\* AutoDetachObserver.dispose: `with self.lock:`
AdDisposeLock(t) ==
    \E ctx \in DisposeCtx :
        /\ pc[t] = AdLock(ctx)
        /\ LockAvail(t)
        /\ lock' = t
        /\ pc' = [pc EXCEPT ![t] = AdStop(ctx)]
        /\ UNCHANGED adVars
        /\ UNCHANGED <<isStopped, op, arg, cid, ncalls, flips, issued, adOthers>>

\* AutoDetachObserver.dispose: super().dispose(), self.isStopped.value = True
AdDisposeStop(t) ==
    \E ctx \in DisposeCtx :
        /\ pc[t] = AdStop(ctx)
        /\ isStopped' = TRUE
        /\ flips' = Flipped(t, isStopped, TRUE)
        /\ Goto(t, AdSlot(ctx))
        /\ UNCHANGED adVars
        /\ UNCHANGED <<ncalls, issued, adOthers>>

\* AutoDetachObserver.dispose: self.m.dispose(), and the lock taken by
\* dispose is released (onNext still holds it until it is left); the call
\* returns, or the exception of the forwarded call goes on to the caller
AdDisposeSlot(t) ==
    \E ctx \in DisposeCtx :
        /\ pc[t] = AdSlot(ctx)
        /\ adSlotDisposed' = TRUE
        /\ adSubDisposed' = IF SlotDisposes(adAssigned, adSlotDisposed)
                               THEN adSubDisposed + 1 ELSE adSubDisposed
        /\ IF ctx = "exc"
             THEN /\ pc' = [pc EXCEPT ![t] = "adPropagate"]
                  /\ lock' = IF op[t] = "onNext" THEN lock ELSE Free
                  /\ UNCHANGED <<op, arg, cid, adEnded>>
             ELSE /\ adEnded' = IF ctx = "ok"
                                   THEN adEnded \cup {<<EndKind(op[t], FALSE), cid[t]>>}
                                   ELSE adEnded
                  /\ Returned(t)
        /\ UNCHANGED <<adAssigned, adTrace>>
        /\ UNCHANGED <<isStopped, ncalls, flips, issued, adOthers>>

\* the exception of the forwarded call reaches the caller of the wrapper
AdPropagate(t) ==
    /\ pc[t] = "adPropagate"
    /\ adEnded' = adEnded \cup {<<EndKind(op[t], TRUE), cid[t]>>}
    /\ Returned(t)
    /\ UNCHANGED <<adAssigned, adSlotDisposed, adSubDisposed, adTrace>>
    /\ UNCHANGED <<isStopped, ncalls, flips, issued, adOthers>>

InitAutoDetach ==
    /\ ver = "rx"
    /\ isLongRunning = FALSE
    /\ BaseInit
    /\ SchedInit
    /\ CkInit
    /\ adAssigned \in BOOLEAN
    /\ AdInit
    /\ SyInit
    /\ LoInit(<<>>)
    /\ AlInit

NextAutoDetach ==
    \/ \E t \in Producers : AdCall(t)
    \/ AdAssign
    \/ \E t \in Producers : OnNextLock(t)
    \/ \E t \in Producers : OnNextChk(t)
    \/ \E t \in Producers : TerminalExchange(t)
    \/ \E t \in Producers : AdForward(t)
    \/ \E t \in Producers : AdInnerReturns(t)
    \/ \E t \in Producers : AdInnerRaises(t)
    \/ \E t \in Producers : AdDisposeLock(t)
    \/ \E t \in Producers : AdDisposeStop(t)
    \/ \E t \in Producers : AdDisposeSlot(t)
    \/ \E t \in Producers : AdPropagate(t)

SpecAutoDetach == InitAutoDetach /\ [][NextAutoDetach]_vars

\* ===================================================================
\* SpecSynchronized: threads calling the SynchronizedObserver instances
\* that were made with one lock, in either revision.  In src/rx/observer.py
\* an instance has its own self.lock besides the caller's outerLock; in the
\* earlier revision the caller's lock replaces self.lock.
\* ===================================================================
\* calls made on the SynchronizedObserver instances
MaxSyncCalls == 3

\* what a step of a SynchronizedObserver leaves alone
syOthers == <<baseVars, baseHist, issued, schedVars, schedHist, ckVars, adVars, loVars,
             alVars>>

\* a `with` on the caller's lock that does not wait for it
OuterAvail_mut(t) == TRUE

\* can thread t acquire the caller's lock (an RLock)?
OuterAvail(t) == outerLock = Free \/ outerLock = t

\* the caller's lock after its owner has left n of its `with` blocks
OuterOwnerAfter(n) == IF outerDepth - n <= 0 THEN Free ELSE outerLock
OuterDepthAfter(n) == IF outerDepth - n <= 0 THEN 0 ELSE outerDepth - n

\* does the method thread t is in hold a lock from entry to return?  onNext
\* does in both revisions, onError / onCompleted in the earlier one
SyMethodLocks(t) == syOp[t] = "onNext" \/ ver = "legacy"

\* thread t returns from its call, leaving n `with` blocks on the caller's
\* lock and, in src/rx/observer.py, the `with self.lock` of onNext
SyReturn(t, n) ==
    /\ syPc' = [syPc EXCEPT ![t] = "idle"]
    /\ syOp' = [syOp EXCEPT ![t] = "none"]
    /\ syInst' = [syInst EXCEPT ![t] = 0]
    /\ outerLock' = OuterOwnerAfter(n)
    /\ outerDepth' = OuterDepthAfter(n)
    /\ syLock' = [i \in Instances |-> IF syLock[i] = t THEN Free ELSE syLock[i]]

\* a thread calls onNext / onError / onCompleted on one of the instances
SyCall(t) ==
    /\ syPc[t] = "idle"
    /\ syCalls < MaxSyncCalls
    /\ syCalls' = syCalls + 1
    /\ \E i \in Instances : syInst' = [syInst EXCEPT ![t] = i]
    /\ \E o \in NotifyOps : syOp' = [syOp EXCEPT ![t] = o]
    /\ syPc' = [syPc EXCEPT ![t] = "start"]
    /\ UNCHANGED <<syStopped, syLock, outerLock, outerDepth, syOthers>>

\* ObserverBase: `with self.lock:` of onNext, and of onError / onCompleted
\* in the earlier revision, where self.lock is the caller's lock
SyEnterLock(t) ==
    /\ syPc[t] = "start"
    /\ SyMethodLocks(t)
    /\ IF ver = "rx"
         THEN /\ syLock[syInst[t]] = Free
              /\ syLock' = [syLock EXCEPT ![syInst[t]] = t]
              /\ UNCHANGED <<outerLock, outerDepth>>
         ELSE /\ OuterAvail(t)
              /\ outerLock' = t
              /\ outerDepth' = outerDepth + 1
              /\ UNCHANGED syLock
    /\ syPc' = [syPc EXCEPT ![t] = "chk"]
    /\ UNCHANGED <<syStopped, syInst, syOp, syCalls, syOthers>>

\* ObserverBase, under the lock: `if self.isStopped: return`; the earlier
\* revision's onError / onCompleted then set the flag; the core handler
\* follows
SyChk(t) ==
    /\ syPc[t] = "chk"
    /\ IF syStopped[syInst[t]]
         THEN /\ SyReturn(t, IF ver = "legacy" THEN 1 ELSE 0)
              /\ UNCHANGED syStopped
         ELSE /\ syStopped' = [syStopped EXCEPT ![syInst[t]] = (syOp[t] # "onNext")]
              /\ syPc' = [syPc EXCEPT ![t] = "core"]
              /\ UNCHANGED <<syLock, outerLock, outerDepth, syInst, syOp>>
    /\ UNCHANGED <<syCalls, syOthers>>

\* src/rx/observer.py, onError / onCompleted:
\* `if not self.isStopped.exchange(True):` the core handler follows
SyTerminalExchange(t) ==
    /\ syPc[t] = "start"
    /\ ~SyMethodLocks(t)
    /\ syLock[syInst[t]] \in {Free, t}
    /\ syStopped' = [syStopped EXCEPT ![syInst[t]] = AtomicExchange(@, TRUE)]
    /\ IF syStopped[syInst[t]]
         THEN SyReturn(t, 0)
         ELSE /\ syPc' = [syPc EXCEPT ![t] = "core"]
              /\ UNCHANGED <<syLock, outerLock, outerDepth, syInst, syOp>>
    /\ UNCHANGED <<syCalls, syOthers>>

\* onNextCore / onErrorCore / onCompletedCore: `with self.outerLock:` (in
\* the earlier revision `with self.lock:`), and the forwarded call begins
SyCoreEnter(t) ==
    /\ syPc[t] = "core"
    /\ OuterAvail(t)
    /\ outerLock' = t
    /\ outerDepth' = outerDepth + 1
    /\ syPc' = [syPc EXCEPT ![t] = "inInner"]
    /\ UNCHANGED <<syStopped, syLock, syInst, syOp, syCalls, syOthers>>

\* the forwarded call ends, the `with` of the core handler is left, and
\* the method returns
SyCoreExit(t) ==
    /\ syPc[t] = "inInner"
    /\ SyReturn(t, IF ver = "legacy" THEN 2 ELSE 1)
    /\ UNCHANGED <<syStopped, syCalls, syOthers>>

InitSynchronized ==
    /\ ver \in {"rx", "legacy"}
    /\ isLongRunning = FALSE
    /\ BaseInit
    /\ SchedInit
    /\ WrapInit

NextSynchronized ==
    \/ \E t \in Threads : SyCall(t)
    \/ \E t \in Threads : SyEnterLock(t)
    \/ \E t \in Threads : SyChk(t)
    \/ \E t \in Threads : SyTerminalExchange(t)
    \/ \E t \in Threads : SyCoreEnter(t)
    \/ \E t \in Threads : SyCoreExit(t)

SpecSynchronized == InitSynchronized /\ [][NextSynchronized]_vars

\* ===================================================================
\* SpecList: add, remove and broadcasts on ListObserver instances.  An
\* instance is named by its position in loHeap, the first one by 1.
\* ===================================================================
\* ListObserver instances constructed, the first one included
MaxListObservers == 4
\* notifications broadcast
MaxBroadcasts == 2

\* the observers that are made members
ListMembers == {1, 2}

\* what a step of a ListObserver leaves alone
loOthers == <<baseVars, baseHist, issued, schedVars, schedHist, ckVars, adVars, syVars,
             alVars>>

\* the tuples the first instance is constructed with
FirstMembers == {<<>>, <<1>>, <<1, 2>>, <<2, 1, 2>>}

\* `observer in self.observers`
IsMember(obs, o) == \E k \in 1..Len(obs) : obs[k] = o

\* `self.observers.index(observer)`, counted from 1
IndexOf(obs, o) ==
    CHOOSE k \in 1..Len(obs) : obs[k] = o /\ \A j \in 1..(k - 1) : obs[j] # o

\* remove: `self.observers[0:index] + self.observers[index+1:]`
RemoveResult(obs, o) ==
    SubSeq(obs, 1, IndexOf(obs, o) - 1) \o SubSeq(obs, IndexOf(obs, o) + 1, Len(obs))

\* an add that appends to the tuple of the instance it is called on
HeapAfterAdd_mut(heap, i, o) == [heap EXCEPT ![i] = heap[i] \o <<o>>]

\* add: `return ListObserver(self.observers + (observer,))`
HeapAfterAdd(heap, i, o) == Append(heap, heap[i] \o <<o>>)

\* remove: `return self` for a non-member, else `return ListObserver(newObservers)`
HeapAfterRemove(heap, i, o) ==
    IF IsMember(heap[i], o) THEN Append(heap, RemoveResult(heap[i], o)) ELSE heap

\* add / remove of observer o called on instance i leaves the instances as
\* heap; it returns the instance it constructed, or i when it made none
LoCallEnds(kind, i, o, heap) ==
    /\ loHeap' = heap
    /\ loMade' = IF Len(heap) > Len(loHeap)
                   THEN Append(loMade, heap[Len(heap)])
                   ELSE loMade
    /\ loLast' = [op |-> kind, inst |-> i, obs |-> o,
                  ret |-> IF Len(heap) > Len(loHeap) THEN Len(heap) ELSE i,
                  mid |-> (loBEnd = "running" /\ loBInst = i /\ loBIdx >= 1)]
    /\ UNCHANGED <<loBInst, loBIdx, loTrace, loBOp, loBEnd, loCalls, loOthers>>

\* ListObserver.add
LoAdd(i, o) ==
    /\ Len(loHeap) < MaxListObservers
    /\ LoCallEnds("add", i, o, HeapAfterAdd(loHeap, i, o))

\* ListObserver.remove
LoRemove(i, o) ==
    /\ Len(loHeap) < MaxListObservers
    /\ LoCallEnds("remove", i, o, HeapAfterRemove(loHeap, i, o))

\* onNext / onError / onCompleted is called on instance i: the loop begins
LoBroadcastBegin(i, o) ==
    /\ loBEnd # "running"
    /\ loCalls < MaxBroadcasts
    /\ loCalls' = loCalls + 1
    /\ loBInst' = i
    /\ loBOp' = o
    /\ loBIdx' = 0
    /\ loTrace' = <<>>
    /\ loBEnd' = "running"
    /\ UNCHANGED <<loHeap, loMade, loLast, loOthers>>

\* `for observer in self.observers: observer.onNext(value)`: the next
\* member is called and returns
LoBroadcastStep ==
    /\ loBEnd = "running"
    /\ loBIdx < Len(loHeap[loBInst])
    /\ loTrace' = Append(loTrace, loHeap[loBInst][loBIdx + 1])
    /\ loBIdx' = loBIdx + 1
    /\ UNCHANGED <<loHeap, loMade, loBInst, loBOp, loBEnd, loCalls, loLast, loOthers>>

\* the next member is called and raises: the exception leaves the loop
LoBroadcastRaises ==
    /\ loBEnd = "running"
    /\ loBIdx < Len(loHeap[loBInst])
    /\ loTrace' = Append(loTrace, loHeap[loBInst][loBIdx + 1])
    /\ loBIdx' = loBIdx + 1
    /\ loBEnd' = "raised"
    /\ UNCHANGED <<loHeap, loMade, loBInst, loBOp, loCalls, loLast, loOthers>>

\* the loop has called every member: the method returns
LoBroadcastEnd ==
    /\ loBEnd = "running"
    /\ loBIdx >= Len(loHeap[loBInst])
    /\ loBEnd' = "returned"
    /\ UNCHANGED <<loHeap, loMade, loBInst, loBIdx, loTrace, loBOp, loCalls, loLast, loOthers>>

InitList ==
    /\ ver = "rx"
    /\ isLongRunning = FALSE
    /\ BaseInit
    /\ SchedInit
    /\ CkInit
    /\ adAssigned = FALSE
    /\ AdInit
    /\ SyInit
    /\ \E members \in FirstMembers : LoInit(members)
    /\ AlInit

NextList ==
    \/ \E i \in 1..Len(loHeap) : \E o \in ListMembers : LoAdd(i, o)
    \/ \E i \in 1..Len(loHeap) : \E o \in ListMembers : LoRemove(i, o)
    \/ \E i \in 1..Len(loHeap) : \E o \in NotifyOps : LoBroadcastBegin(i, o)
    \/ LoBroadcastStep
    \/ LoBroadcastRaises
    \/ LoBroadcastEnd

SpecList == InitList /\ [][NextList]_vars

\* ===================================================================
\* SpecWakeUp: producers calling onNext of one ObserveOnObserver on a
\* trampoline scheduler whose steps run on other threads; the values are
\* not None, the inner observer does not raise, nothing is disposed.  A
\* thread inside a call keeps running, and so does a scheduled step.
\* ===================================================================
\* a producer calls onNext with a value that is not None
WakeCall(t) ==
    /\ Call(t, "onNext", ncalls + 1, MaxCalls)
    /\ UNCHANGED issued

\* the steps of a producer inside onNext
ProducerStep(t) ==
    \/ OnNextLock(t)
    \/ OnNextChk(t)
    \/ OnNextCore(t)
    \/ EasCas1(t)
    \/ EasCas2(t)
    \/ EasSchedule(t)

\* the steps of the scheduled run under handle h
RunStep(h) ==
    \/ RunStart(h)
    \/ RunGet(h)
    \/ RunChkFailed(h)
    \/ RunChkCompleted(h)
    \/ RunCas(h)
    \/ RunForceRunning(h)
    \/ RunSetRunning(h)
    \/ RunDeliverBegin(h)
    \/ RunDeliverOk(h)
    \/ RunContinuation(h)

InitWakeUp ==
    /\ ver = "rx"
    /\ isLongRunning = FALSE
    /\ BaseInit
    /\ SchedInit
    /\ WrapInit

NextWakeUp ==
    \/ \E t \in Producers : WakeCall(t)
    \/ \E t \in Producers : OnNextLock(t)
    \/ \E t \in Producers : OnNextChk(t)
    \/ \E t \in Producers : OnNextCore(t)
    \/ \E t \in Producers : EasCas1(t)
    \/ \E t \in Producers : EasCas2(t)
    \/ \E t \in Producers : EasSchedule(t)
    \/ \E h \in Handles : RunStart(h)
    \/ \E h \in Handles : RunGet(h)
    \/ \E h \in Handles : RunChkFailed(h)
    \/ \E h \in Handles : RunChkCompleted(h)
    \/ \E h \in Handles : RunCas(h)
    \/ \E h \in Handles : RunForceRunning(h)
    \/ \E h \in Handles : RunSetRunning(h)
    \/ \E h \in Handles : RunDeliverBegin(h)
    \/ \E h \in Handles : RunDeliverOk(h)
    \/ \E h \in Handles : RunContinuation(h)

SpecWakeUp ==
    /\ InitWakeUp
    /\ [][NextWakeUp]_vars
    /\ \A t \in Producers : WF_vars(ProducerStep(t))
    /\ \A h \in Handles : WF_vars(RunStep(h))

\* ===================================================================
\* SpecDedicated: producers calling one ObserveOnObserver on a scheduler
\* with long-running jobs, dispose() included; the inner observer does not
\* raise.  A thread inside a call keeps running, and so does dispatch.
\* ===================================================================
\* the steps of a producer inside a call
DedicatedStep(t) ==
    \/ OnNextLock(t)
    \/ OnNextChk(t)
    \/ TerminalExchange(t)
    \/ OnNextCore(t)
    \/ OnErrorCoreException(t)
    \/ OnErrorCoreFailed(t)
    \/ OnCompletedCore(t)
    \/ EaRelease(t)
    \/ EdCheck(t)
    \/ EdLock(t)
    \/ EdCreate(t)
    \/ EdSchedule(t)
    \/ ProducerDispose1(t)
    \/ ProducerDispose2(t)
    \/ ProducerDispose3(t)
    \/ ProducerDispose4(t)

\* the steps of the dispatch routine
DispatchStep ==
    \/ DispatchAcquire
    \/ DispatchChkCancel
    \/ DispatchGet
    \/ DispatchDeliverBegin
    \/ DispatchDeliverOk

InitDedicated ==
    /\ ver = "rx"
    /\ isLongRunning = TRUE
    /\ BaseInit
    /\ SchedInit
    /\ WrapInit

NextDedicated ==
    \/ \E t \in Producers : ProducerCall(t)
    \/ \E t \in Producers : OnNextLock(t)
    \/ \E t \in Producers : OnNextChk(t)
    \/ \E t \in Producers : TerminalExchange(t)
    \/ \E t \in Producers : OnNextCore(t)
    \/ \E t \in Producers : OnErrorCoreException(t)
    \/ \E t \in Producers : OnErrorCoreFailed(t)
    \/ \E t \in Producers : OnCompletedCore(t)
    \/ \E t \in Producers : EaRelease(t)
    \/ \E t \in Producers : EdCheck(t)
    \/ \E t \in Producers : EdLock(t)
    \/ \E t \in Producers : EdCreate(t)
    \/ \E t \in Producers : EdSchedule(t)
    \/ \E t \in Producers : ProducerDispose1(t)
    \/ \E t \in Producers : ProducerDispose2(t)
    \/ \E t \in Producers : ProducerDispose3(t)
    \/ \E t \in Producers : ProducerDispose4(t)
    \/ DispatchAcquire
    \/ DispatchChkCancel
    \/ DispatchGet
    \/ DispatchDeliverBegin
    \/ DispatchDeliverOk

SpecDedicated ==
    /\ InitDedicated
    /\ [][NextDedicated]_vars
    /\ \A t \in Producers : WF_vars(DedicatedStep(t))
    /\ WF_vars(DispatchStep)

\* ===================================================================
\* SpecAsyncLock: threads calling one AsyncLockObserver of either
\* revision.  The gate is made by the caller and may be shared: wait(action)
\* queues the action; the caller runs the queued actions itself unless
\* somebody is running them already, who then runs this one too.
\* ===================================================================
\* calls made on the AsyncLockObserver
MaxAsyncCalls == 3

\* another user of the gate
OtherUser == "other"

\* what a step of the AsyncLockObserver or of its gate leaves alone
alOthers == <<ver, isStopped, ncalls, baseHist, issued, schedVars, schedHist,
              ckVars, adVars, syVars, loVars>>

\* the call of the inner observer that the action queued by a core handler
\* makes: onNextCore `self.observer.onNext(value)`, onErrorCore
\* `self.observer.onNext(exception)`, onCompletedCore
\* `self.observer.onCompleted()`
AlAction(o, v) ==
    IF o = "onNext" THEN <<"onNext", <<"value", v>>>>
    ELSE IF o = "onError" THEN <<"onNext", <<"exception", Exc>>>>
    ELSE <<"onCompleted", <<>>>>

\* a call on the AsyncLockObserver
AlCall(t) ==
    /\ \/ Call(t, "onNext", ncalls + 1, MaxAsyncCalls)
       \/ \E o \in {"onError", "onCompleted"} : Call(t, o, None, MaxAsyncCalls)
    /\ UNCHANGED issued

\* a core handler: self.gate.wait(lambda: ...); the action is queued, and
\* the caller becomes the one who runs the queue when nobody is
AlWait(t) ==
    /\ pc[t] \in CoreLabels
    /\ alQueue' = Append(alQueue, AlAction(op[t], arg[t]))
    /\ IF alOwner = Free
         THEN alOwner' = t /\ Goto(t, "al_drain")
         ELSE alOwner' = alOwner /\ Returned(t)
    /\ UNCHANGED <<alTrace, alOthers>>

\* the caller that runs the gate's queue runs the next action
AlRun(t) ==
    /\ pc[t] = "al_drain"
    /\ alQueue # <<>>
    /\ alTrace' = Append(alTrace, Head(alQueue))
    /\ alQueue' = Tail(alQueue)
    /\ UNCHANGED <<alOwner, baseVars, alOthers>>

\* the queue is empty: the gate is released, wait and the core handler return
AlRelease(t) ==
    /\ pc[t] = "al_drain"
    /\ alQueue = <<>>
    /\ alOwner' = Free
    /\ Returned(t)
    /\ UNCHANGED <<alQueue, alTrace, alOthers>>

\* another user of the gate starts running an action of its own
AlOtherAcquire ==
    /\ alOwner = Free
    /\ alOwner' = OtherUser
    /\ UNCHANGED <<alQueue, alTrace, baseVars, alOthers>>

\* the other user runs an action the AsyncLockObserver queued meanwhile
AlOtherRun ==
    /\ alOwner = OtherUser
    /\ alQueue # <<>>
    /\ alTrace' = Append(alTrace, Head(alQueue))
    /\ alQueue' = Tail(alQueue)
    /\ UNCHANGED <<alOwner, baseVars, alOthers>>

\* the other user finds the queue empty and releases the gate
AlOtherRelease ==
    /\ alOwner = OtherUser
    /\ alQueue = <<>>
    /\ alOwner' = Free
    /\ UNCHANGED <<alQueue, alTrace, baseVars, alOthers>>

InitAsyncLock ==
    /\ ver \in {"rx", "legacy"}
    /\ isLongRunning = FALSE
    /\ BaseInit
    /\ SchedInit
    /\ WrapInit

NextAsyncLock ==
    \/ \E t \in Producers : AlCall(t)
    \/ \E t \in Producers : OnNextLock(t)
    \/ \E t \in Producers : OnNextChk(t)
    \/ \E t \in Producers : TerminalExchange(t)
    \/ \E t \in Producers : TerminalLock(t)
    \/ \E t \in Producers : TerminalChk(t)
    \/ \E t \in Producers : AlWait(t)
    \/ \E t \in Producers : AlRun(t)
    \/ \E t \in Producers : AlRelease(t)
    \/ AlOtherAcquire
    \/ AlOtherRun
    \/ AlOtherRelease

SpecAsyncLock == InitAsyncLock /\ [][NextAsyncLock]_vars

\* ------------------------------------------------------ ObserverBase claims
TerminalCores == {"onErrorCore", "onCompletedCore"}
TerminalEntries == {i \in 1..Len(coreLog) : coreLog[i].kind \in TerminalCores}
AllIdle == \A t \in Threads : pc[t] = "idle"

\* C7: once a terminal notification has been forwarded to its core handler no
\* later call invokes a core handler: the terminal invocation is the last
\* entry of the log of core invocations, so there is at most one of
\* onErrorCore / onCompletedCore, invoked at most once.
TheoremC7 == \A i \in TerminalEntries : i = Len(coreLog)

\* C7 witness: a terminal was forwarded and a call begun after that has returned
WitnessC7 ==
    /\ AllIdle
    /\ \E i \in TerminalEntries : \E c \in issued :
          /\ c.id > coreLog[i].at
          /\ c.op \in {"onNext", "onError", "onCompleted", "fail"}

\* C8 as stated: when onError / onCompleted / dispose calls from different
\* threads have all returned, exactly one terminal delivery reached the core.
CexC8 ==
    (AllIdle /\ \E c \in issued : c.op \in {"onError", "onCompleted"})
        => Cardinality(TerminalEntries) = 1

\* C8 amended: at most one terminal delivery reaches the core handler; when
\* all calls have returned there is exactly one if the call that set the
\* stopped flag was onError, onCompleted or fail, and none if it was dispose.
TheoremC8 ==
    /\ Cardinality(TerminalEntries) <= 1
    /\ AllIdle =>
         Cardinality(TerminalEntries) =
            (IF \E f \in flips : f.op \in TerminalOps THEN 1 ELSE 0)

\* C8 witness: onError, onCompleted and dispose were all called, all calls
\* have returned, and one terminal delivery was made
WitnessC8 ==
    /\ AllIdle
    /\ {c.op : c \in issued} = {"onError", "onCompleted", "dispose"}
    /\ Cardinality(TerminalEntries) = 1

\* C9: from the moment a terminal core handler is invoked, no thread is
\* inside onNextCore or about to invoke it: none is still executing when the
\* terminal handler is invoked and none starts afterwards.
TheoremC9 ==
    (TerminalEntries # {}) =>
        \A t \in Threads : pc[t] \notin {"onNextCore", InCore("onNextCore")}

\* C9 witness: an onNextCore ran on one thread while a terminal call issued
\* earlier by another thread had not yet reached its core handler
WitnessC9 ==
    \E i \in 1..Len(coreLog) : \E j \in TerminalEntries :
        /\ i < j
        /\ coreLog[i].kind = "onNextCore"
        /\ coreLog[i].thread # coreLog[j].thread
        /\ coreLog[j].id < coreLog[i].id

\* number of core invocations made by call id
CoreCount(id) == Cardinality({i \in 1..Len(coreLog) : coreLog[i].id = id})

\* C10: a returned fail call returned true exactly when it changed the
\* stopped flag from false to true, and then it invoked onErrorCore once; it
\* invoked nothing when it returned false; at most one fail returns true.
TheoremC10 ==
    /\ \A r \in failRet :
          /\ r[2] = (\E f \in flips : f.id = r[1])
          /\ CoreCount(r[1]) = (IF r[2] THEN 1 ELSE 0)
          /\ \A i \in 1..Len(coreLog) :
                coreLog[i].id = r[1] => coreLog[i].kind = "onErrorCore"
    /\ Cardinality({r \in failRet : r[2]}) <= 1

\* C10 witness: one fail call returned true and another returned false
WitnessC10 == \E a, b \in failRet : a[2] /\ ~b[2]
\* --------------------------------------------------- dispatcher claims
IsPrefix(a, b) == Len(a) <= Len(b) /\ \A i \in 1..Len(a) : a[i] = b[i]
IsNext(e) == e[1] = "N"
RECURSIVE ValuesOf(_)
ValuesOf(tr) ==
    IF tr = <<>> THEN <<>>
    ELSE IF IsNext(Head(tr)) THEN <<Head(tr)[2]>> \o ValuesOf(Tail(tr))
    ELSE ValuesOf(Tail(tr))
\* values the inner observer's onNext received, in order
Delivered == ValuesOf(trace)
\* places of the terminal notifications in the inner observer's trace
Terminals == {i \in 1..Len(trace) : ~IsNext(trace[i])}
NoneEnqueued == \E i \in 1..Len(enqueued) : enqueued[i] = None
ProducersIdle == \A t \in Producers : pc[t] = "idle"
Trampoline == ~isLongRunning
\* no inner onNext has raised and dispose() was not called from outside
Undisturbed == raised = 0 /\ ~extDisposed

\* C1 as stated: trampoline strategy, no delivery fault and no dispose: the
\* values passed to the inner observer's onNext are at every moment a prefix
\* of the values put on the queue.
CexC1 == (Trampoline /\ Undisturbed) => IsPrefix(Delivered, enqueued)

\* The same for values other than None, which is what the interleavings of
\* producers and scheduler steps by themselves preserve.
PrefixOfNonNone ==
    (Trampoline /\ Undisturbed /\ ~NoneEnqueued) => IsPrefix(Delivered, enqueued)

\* C2 as stated (here for values other than None): trampoline strategy, no
\* fault and no dispose from outside: the inner observer receives at most one
\* terminal notification, as its last call, and only once every value put
\* on the queue has been delivered.
CexC2 ==
    (Trampoline /\ Undisturbed /\ ~NoneEnqueued) =>
        /\ Cardinality(Terminals) <= 1
        /\ \A i \in Terminals : i = Len(trace) /\ Delivered = enqueued

\* the dispatch routine can take a step
DispatchEnabled ==
    \/ ENABLED DispatchAcquire
    \/ ENABLED DispatchChkCancel
    \/ ENABLED DispatchGet
    \/ ENABLED DispatchDeliverBegin
    \/ ENABLED DispatchDeliverOk
    \/ ENABLED DispatchClearGet
    \/ ENABLED DispatchClearBlock

\* C3 as stated (here for N >= 1): dedicated-thread strategy, no fault and no
\* dispose from outside: once the producers' onNext calls and the terminal
\* call have returned, dispatch does not come to rest before it has
\* delivered the values in order, then one terminal notification, and disposed.
CexC3 ==
    (/\ isLongRunning
     /\ Undisturbed
     /\ enqueued # <<>>
     /\ failed \/ completed
     /\ ProducersIdle
     /\ ~DispatchEnabled)
        => /\ Delivered = enqueued
           /\ Cardinality(Terminals) = 1
           /\ Terminals = {Len(trace)}
           /\ serialDisposed

\* C4 as stated (here for values other than None): trampoline strategy: at
\* most one call into the inner observer is in flight at any time.
CexC4 == (Trampoline /\ ~NoneEnqueued) => inflight <= 1

\* the delivery routine that met the fault is inside clearQueue
InClearQueue ==
    \/ dpc \in {"clear", "clearBlocked"}
    \/ \E h \in Handles : runPc[h] \in {"clear", "clearBlocked"}

\* C5, a step of the system: once an inner onNext has raised, the inner
\* observer receives no further call; in the trampoline strategy the state
\* FAULTED is entered only by the handler of that fault, is never left, and
\* nothing is scheduled while it holds.
C5Step ==
    /\ raised > 0 => trace' = trace /\ inflight' <= inflight
    /\ Trampoline =>
         /\ state = FAULTED => state' = FAULTED
         /\ (state # FAULTED /\ state' = FAULTED) =>
               \E h \in Handles : runPc[h] = "fault" /\ runPc'[h] = "clear"
         /\ state = FAULTED =>
               /\ nHandles' = nHandles
               /\ \A h \in Handles : runPc'[h] = "pending" => runPc[h] = "pending"

\* C5: in either strategy no call reaches the inner observer after its onNext
\* raised; in the trampoline strategy the dispatcher is FAULTED from the
\* fault handler's first step on (while run is in clearQueue), becomes so
\* once, stays so, and ensureActive then schedules nothing.
TheoremC5 ==
    /\ []((Trampoline /\ InClearQueue) => state = FAULTED)
    /\ [][C5Step]_vars

\* C5 witness: trampoline strategy, after the fault: a producer has put a
\* value and returned from ensureActive, the dispatcher is FAULTED, and no
\* step is scheduled or running besides the one that met the fault
WitnessC5 ==
    /\ Trampoline
    /\ raised = 1
    /\ state = FAULTED
    /\ ProducersIdle
    /\ queue # <<>>
    /\ \E h \in Handles :
          /\ runPc[h] = "clearBlocked"
          /\ \A g \in Handles \ {h} : runPc[g] \in {"unscheduled", "done"}

\* C6 as stated: after the inner onNext raised, the delivery routine discards
\* the queue and ends by raising; it does not block (here: it is never parked
\* in a blocking read of the emptied queue).
CexC6 ==
    /\ dpc # "clearBlocked"
    /\ \A h \in Handles : runPc[h] # "clearBlocked"

\* somebody is between the exchange on self.cancel and old.dispose()
DisposingUpstream ==
    \/ \E t \in Producers : pc[t] = "dispose4"
    \/ \E h \in Handles : runPc[h] = "dispose4"

\* C16 as stated: once a dispose() call on the ObserveOnObserver has
\* completed, the upstream handle's dispose has been invoked exactly once.
CexC16 == disposeReturned > 0 => upstreamDisposed = 1

\* C16 amended: over every interleaving of dispose() calls (from outside,
\* concurrent, or made by run after a terminal delivery) the upstream
\* handle's dispose is invoked at most once, by the call whose exchange took
\* the handle: not before that exchange, and exactly once from the moment
\* that call has made it; a dispose() that found the handle already taken
\* may return earlier.
TheoremC16 ==
    /\ upstreamDisposed <= 1
    /\ cancel => upstreamDisposed = 0
    /\ (~cancel /\ ~DisposingUpstream) => upstreamDisposed = 1

\* C16 witness: a terminal notification was delivered, dispose() was also
\* called from outside, at least two dispose() calls have returned, and the
\* upstream handle was disposed once
WitnessC16 ==
    /\ Terminals # {}
    /\ extDisposed
    /\ disposeReturned >= 2
    /\ upstreamDisposed = 1

\* nothing of the delivery machinery has been touched
NothingScheduled ==
    /\ trace = <<>>
    /\ nHandles = 0
    /\ nJobs = 0
    /\ sem = 0
    /\ state = STOPPED

\* ensureActive() has been called
Activated == \E c \in issued : c.op = "ensureActive"

\* C19, a step of the system: a step of an onNext / onError / onCompleted
\* call on the ScheduledObserver changes at most the queue (by putting the
\* call's value at its end) and the failed / exception / completed fields.
C19Step ==
    \A t \in Producers :
        (pc'[t] # pc[t] /\ (op[t] \in NotifyOps \/ op'[t] \in NotifyOps)) =>
            /\ UNCHANGED <<trace, inflight, state, trampVars, dedVars, dispVars>>
            /\ queue' = queue \/ queue' = Append(queue, arg[t])

\* C19: calls of onNext / onError / onCompleted on the observer notifyOn
\* returns make no call on the inner observer and schedule no work (no step,
\* no dispatcher job, no semaphore release); as long as ensureActive has
\* not been invoked nothing is delivered or scheduled.
TheoremC19 ==
    /\ [](~Activated => NothingScheduled)
    /\ [][C19Step]_vars

\* C19 witness: a value was put and the completed flag set, the calls have
\* returned, ensureActive was not invoked, and nothing was delivered or
\* scheduled
WitnessC19 ==
    /\ ~Activated
    /\ queue # <<>>
    /\ completed
    /\ ProducersIdle
    /\ NothingScheduled

\* C20: dedicated-thread strategy: scheduler.scheduleLongRunning is invoked
\* at most once for the dispatcher, whatever threads call ensureActive
\* concurrently, and dispatcherJob is set exactly when it was invoked.
TheoremC20 ==
    /\ nJobs <= 1
    /\ dispatcherJob <=> nJobs = 1

\* C20 witness: two threads are in ensureDispatcher at once, both having
\* found no job at the unguarded test: one has scheduled the job, the other
\* then holds the lock and finds it
WitnessC20 ==
    /\ nJobs = 1
    /\ \E t \in Producers : pc[t] = "ed_create" /\ lock = t

\* the method called by the producer's i-th call
CallOp(i) == (CHOOSE c \in issued : c.id = i).op

\* what the inner observer is to record for the calls from the i-th on:
\* Next(v) per onNext up to the first terminal call, then that notification
RECURSIVE ExpectedFrom(_)
ExpectedFrom(i) ==
    IF i > ncalls THEN <<>>
    ELSE IF CallOp(i) = "onNext" THEN <<(<<"N", i>>)>> \o ExpectedFrom(i + 1)
    ELSE IF CallOp(i) = "onError" THEN <<(<<"E", Exc>>)>>
    ELSE <<(<<"C", None>>)>>

\* C17: run-to-completion trampoline scheduler, one producer, values other
\* than None: the inner observer's trace is at every moment a prefix of
\* Next(v1)..Next(vN) followed by the one terminal notification of the first
\* onError / onCompleted; it is exactly that when the scheduler has finished,
\* and from the terminal delivery on, whatever is called, the trace stays
\* that and the queue stays empty.
TheoremC17 ==
    /\ IsPrefix(trace, ExpectedFrom(1))
    /\ (StepsFinished /\ pc[Producer] = "idle") =>
          trace = ExpectedFrom(1) /\ queue = <<>>
    /\ Terminals # {} => trace = ExpectedFrom(1) /\ queue = <<>>

\* C17 witness: a value and then a terminal notification were delivered, and
\* an onNext made after that has returned
WitnessC17 ==
    /\ Terminals # {}
    /\ Len(trace) >= 2
    /\ pc[Producer] = "idle"
    /\ StepsFinished
    /\ \E c \in issued : \E d \in issued :
          /\ d.op \in {"onError", "onCompleted"}
          /\ c.op = "onNext"
          /\ c.id > d.id

\* thread t has passed the access check and not yet finished its call
CkInFlight(t) == ckPc[t] \in {"forward", "inInner", "finallyOk", "finallyExc"}

\* thread t's access check is decided in this step
CkDeciding(t) ==
    /\ ckPc[t] \in {"check", "checkLocked"}
    /\ ckPc'[t] \in {"raiseBusy", "raiseDone", "forward"}

\* C11, a step of the system: a call whose access check is made while
\* another call is in flight, from another thread or from the inner
\* observer, fails as busy, forwards nothing and leaves the state BUSY; the
\* state leaves BUSY only in the `finally` of the call in flight.
C11Step ==
    /\ \A t \in Producers :
          (CkDeciding(t) /\ \E u \in Producers \ {t} : CkInFlight(u)) =>
              /\ ckPc'[t] = "raiseBusy"
              /\ ckTrace' = ckTrace
              /\ ckState' = BUSY
    /\ \A t \in Producers :
          (ckPc[t] = "inInner" /\ ckPc' = ckPc /\ ckCalls' # ckCalls) =>
              /\ ckNested'[t] = "busy"
              /\ ckTrace' = ckTrace
              /\ ckState' = BUSY
    /\ (ckState = BUSY /\ ckState' # BUSY) =>
          \E t \in Producers :
              /\ ckPc[t] \in {"finallyOk", "finallyExc"}
              /\ ckPc'[t] = "idle"

\* C11: while a call on the CheckedObserver is in flight the state is BUSY
\* and no second call is in flight; every call made meanwhile fails as
\* busy, is not forwarded, and leaves the state BUSY, which only the call in
\* flight resets when it finishes.
TheoremC11 ==
    /\ [](\A t \in Producers : CkInFlight(t) => ckState = BUSY)
    /\ [](Cardinality({t \in Producers : CkInFlight(t)}) <= 1)
    /\ [][C11Step]_vars

\* C11 witness: during a forwarded call a call by the inner observer failed
\* as busy and so did the call of another thread
WitnessC11 ==
    \E t \in Producers : \E u \in Producers \ {t} :
        /\ ckPc[t] = "inInner"
        /\ ckNested[t] = "busy"
        /\ ckPc[u] = "raiseBusy"
        /\ ckState = BUSY

\* a terminal call that passed the access check has finished
CkTerminated == \E f \in ckFinished : f[1] \in {"onError", "onCompleted"}

\* C12, a step of the system: after a forwarded terminal call has finished
\* nothing is forwarded and every access check fails as already terminated.
C12Step ==
    CkTerminated =>
        /\ ckTrace' = ckTrace
        /\ \A t \in Producers : CkDeciding(t) => ckPc'[t] = "raiseDone"

\* C12: once a terminal call that passed the access check has finished,
\* having returned or raised, the state is DONE for ever, every later call
\* fails as already terminated and nothing more is forwarded.
TheoremC12 ==
    /\ [](CkTerminated => ckState = DONE)
    /\ [][C12Step]_vars

\* C12 witness: a forwarded terminal call raised and finished, and a later
\* call has failed as already terminated
WitnessC12 ==
    /\ \E f \in ckFinished : f[1] \in {"onError", "onCompleted"} /\ f[2] = "exc"
    /\ \E t \in Producers : ckPc[t] = "raiseDone"
    /\ ckState = DONE

\* C13: the subscription in the slot is never disposed twice, whatever is
\* called and however often; once a call that terminated the wrapper (a
\* forwarded onError or onCompleted, or an onNext whose forwarded call
\* raised) has ended, a subscription the slot holds has been disposed
\* exactly once.
TheoremC13 ==
    /\ adSubDisposed <= 1
    /\ (adAssigned /\ adEnded # {}) => adSubDisposed = 1

\* C13 witness: a forwarded onError ended, dispose() was called twice as
\* well, all calls have returned, and the subscription was disposed once
WitnessC13 ==
    /\ ProducersIdle
    /\ \E e \in adEnded : e[1] = "onError"
    /\ Cardinality({c \in issued : c.op = "dispose"}) >= 2
    /\ adAssigned
    /\ adSubDisposed = 1

\* the forwarded call of an onNext has raised and dispose() has run
AdFaulted ==
    \/ \E e \in adEnded : e[1] = "onNextRaise"
    \/ \E t \in Producers : pc[t] = "adPropagate" /\ op[t] = "onNext"

\* C14, a step of the system: after the forwarded call of an onNext raised
\* nothing is forwarded any more; a forwarded onNext that returns leaves the
\* wrapper not stopped and its slot not disposed.
C14Step ==
    /\ AdFaulted => adTrace' = adTrace
    /\ \A t \in Producers :
          (pc[t] = "adInner" /\ op[t] = "onNext" /\ pc'[t] = "idle") =>
              /\ ~isStopped'
              /\ ~adSlotDisposed'
              /\ adSubDisposed' = 0

\* C14: when the exception of the inner onNext is about to reach the caller
\* the wrapper is stopped and its slot disposed (and with it a subscription
\* it holds); every later onNext / onError / onCompleted is dropped; an
\* inner onNext that returns normally neither stops nor disposes.
TheoremC14 ==
    /\ [](AdFaulted =>
            /\ isStopped
            /\ adSlotDisposed
            /\ adAssigned => adSubDisposed = 1)
    /\ [][C14Step]_vars

\* C14 witness: the forwarded call of an onNext raised, and a call of onNext,
\* onError or onCompleted made after that one has returned
WitnessC14 ==
    /\ ProducersIdle
    /\ \E e \in adEnded : \E c \in issued :
          /\ e[1] = "onNextRaise"
          /\ c.id > e[2]
          /\ c.op \in NotifyOps

\* the threads inside a forwarded call of an inner observer
SyInside == {t \in Threads : syPc[t] = "inInner"}

\* C15: of the threads calling SynchronizedObserver instances made with one
\* lock at most one is inside a forwarded call of an inner observer, and
\* the thread that is inside one owns that lock, from the beginning of the
\* forwarded call to its end.
TheoremC15 ==
    /\ Cardinality(SyInside) <= 1
    /\ \A t \in SyInside : outerLock = t /\ outerDepth >= 1

\* C15 witness: one thread is inside a forwarded call of one instance while
\* another thread, calling the other instance made with the same lock, has
\* reached its core handler and waits for the lock
WitnessC15 ==
    \E t \in Threads : \E w \in Threads \ {t} :
        /\ syPc[t] = "inInner"
        /\ syPc[w] = "core"
        /\ syInst[w] # syInst[t]
        /\ outerLock = t

\* C18: add and remove leave the members of every existing ListObserver as
\* they were when it was constructed; a broadcast through an instance calls
\* the members it was constructed with, in their order, and all of them
\* when it returns, whatever add / remove calls were made on it before or
\* during the broadcast; remove of a non-member returns the instance it
\* was called on.
TheoremC18 ==
    /\ \A i \in 1..Len(loHeap) : loHeap[i] = loMade[i]
    /\ loBEnd # "none" => loTrace = SubSeq(loMade[loBInst], 1, loBIdx)
    /\ loBEnd = "returned" => loTrace = loMade[loBInst]
    /\ (loLast.op = "remove" /\ ~IsMember(loMade[loLast.inst], loLast.obs))
           => loLast.ret = loLast.inst

\* C18 witness: a broadcast through the first instance has returned after
\* calling its two or more members, and the latest add or remove was made
\* on that instance in the middle of the broadcast and returned a new one
WitnessC18 ==
    /\ loBEnd = "returned"
    /\ loBInst = 1
    /\ Len(loTrace) >= 2
    /\ loLast.inst = 1
    /\ loLast.mid
    /\ loLast.ret # 1
    /\ Len(loMade[loLast.ret]) # Len(loMade[1])

\* C21: a thread whose compareExchange(RUNNING, STOPPED) in ensureActiveSlow
\* returned PENDING returns at its next step, and that step neither changes
\* the state nor schedules a step.
CexC21 ==
    [][\A t \in Producers :
          (pc[t] = "eas_cas2_pending" /\ pc'[t] # pc[t])
             => (pc'[t] = "idle" /\ state' = state /\ nHandles' = nHandles)]_vars

\* the dispatcher is at rest with work left: state STOPPED, no step
\* scheduled or running, a value on the queue, every producer idle
RestsWithWork ==
    /\ state = STOPPED
    /\ \A h \in Handles : runPc[h] \in {"unscheduled", "done"}
    /\ queue # <<>>
    /\ ProducersIdle

\* the k-th value put on the queue is eventually delivered
EventuallyDelivered ==
    \A k \in 1..MaxCalls : (Len(enqueued) >= k) ~> (Len(Delivered) >= k)

\* C22: trampoline strategy with fair scheduling, no fault and no dispose:
\* every value put on the queue by onNext is eventually delivered to the
\* inner observer, and the dispatcher is never at rest with work left.
CexC22 == []~RestsWithWork /\ EventuallyDelivered

\* The safety half of C22 by itself.
NeverRestsWithWork == ~RestsWithWork

\* the dispatch routine has been started and dispose() has disposed the
\* serial slot that holds its job
DispatcherDisposed == dispatcherJob /\ serialDisposed

\* C23: dedicated-thread strategy: once dispose() has been called on the
\* dispatcher, the dispatch routine eventually returns, whatever it was
\* doing when dispose happened.
CexC23 == DispatcherDisposed ~> (dpc = "returned")

\* The same when no onError / onCompleted was accepted: dispatch is then
\* never woken with an empty queue.
ReturnsUnlessTerminalWakeUp ==
    (DispatcherDisposed /\ ~failed /\ ~completed)
        ~> (dpc = "returned" \/ failed \/ completed)

\* C24: trampoline strategy: once a dispose() call on the dispatcher has
\* returned, no call of the inner observer begins any more.
CexC24 ==
    [][(Trampoline /\ disposeReturned >= 1) => trace' = trace]_vars

\* C25: trampoline strategy: whatever value a step of run takes off the
\* queue, None included, is the value it goes on to deliver to the inner
\* observer's onNext.
CexC25 ==
    [][\A h \in Handles :
          (runPc[h] = "get" /\ runPc'[h] # "get" /\ queue # <<>>)
             => (runNext'[h] = Head(queue) /\ runPc'[h] = "setRunning")]_vars

\* an onError call was accepted by the wrapper, and everything it queued
\* on the gate has been run
ErrorWentThrough ==
    /\ \E f \in flips : f.op = "onError"
    /\ alQueue = <<>>
    /\ ProducersIdle

\* C26: the inner observer of an AsyncLockObserver never receives the
\* exception of an accepted onError as an onNext value, and once the
\* action queued for that onError has run, the last call it received is
\* onError(exception).
CexC26 ==
    /\ \A i \in 1..Len(alTrace) : alTrace[i] # <<"onNext", <<"exception", Exc>>>>
    /\ ErrorWentThrough =>
          /\ alTrace # <<>>
          /\ alTrace[Len(alTrace)] = <<"onError", <<"exception", Exc>>>>
====
